---- MODULE Spec2Model ----
(***************************************************************************)
(* Model of the authentication core of agri-management-api:                *)
(*   pkg/auth      JWTManager (NewJWTManager, GenerateToken,               *)
(*                 ValidateToken, RefreshToken)                            *)
(*   middleware    RequestID, Auth                                         *)
(*   handlers      AuthHandler.Refresh, AuthHandler.Logout and a protected *)
(*                 resource handler                                        *)
(*   routes        SetupRoutes (which routes sit behind Auth)              *)
(*                                                                         *)
(* Time is counted in ticks, TicksPerSecond ticks to a second, so that the *)
(* clock is finer than the one-second precision of JWT numeric dates.      *)
(* HMAC is modelled as an ideal MAC: a signature is the triple (key, alg,  *)
(* claims) it was computed from, so two signatures agree exactly when key, *)
(* header and payload agree.                                               *)
(***************************************************************************)
EXTENDS Integers, Sequences, FiniteSets, TLC

VARIABLES now, env, jwtManager, users, tables, issued, nextJti, last, req, retired,
          inflight

vars == <<now, env, jwtManager, users, tables, issued, nextJti, last, req, retired,
          inflight>>

---------------------------------------------------------------------------
(* Bounds of the model *)

TicksPerSecond == 2
MaxTokens == 2
MaxStart == 1

(* Units of time, in ticks *)
Second == TicksPerSecond
Minute == 60 * Second
Hour == 60 * Minute

---------------------------------------------------------------------------
(* pkg/auth: configuration *)

DefaultSecretKey == "default-secret-key"
DefaultTokenDuration == 24 * Hour
RefreshThreshold == 15 * Minute
Issuer == "agri-management-api"

(* Process environments: nothing set; a secret and a parsable expiry set;  *)
(* an expiry set that time.ParseDuration rejects                           *)
Environments ==
    { [JWT_SECRET |-> "",       JWT_EXPIRY |-> ""],
      [JWT_SECRET |-> "s3cret", JWT_EXPIRY |-> "10m"],
      [JWT_SECRET |-> "",       JWT_EXPIRY |-> "abc"] }

(* time.ParseDuration on the JWT_EXPIRY strings above: ok is err == nil *)
ParseDuration(s) ==
    CASE s = "10m" -> [ok |-> TRUE, d |-> 10 * Minute]
      [] OTHER     -> [ok |-> FALSE, d |-> 0]

NewJWTManager(e) ==
    LET secretKey == IF e.JWT_SECRET = "" THEN DefaultSecretKey ELSE e.JWT_SECRET
        parsed == ParseDuration(e.JWT_EXPIRY)
        tokenDuration == IF e.JWT_EXPIRY # "" /\ parsed.ok
                         THEN parsed.d ELSE DefaultTokenDuration
    IN [secretKey |-> secretKey, tokenDuration |-> tokenDuration]

---------------------------------------------------------------------------
(* Token strings *)

UserIDs == {"u1", "u2"}
Emails == {"a@x", "b@x"}
Roles == {"farmer", "admin"}

(* The (userID, email, role) triples tokens are generated for *)
Identities == { <<"u1", "a@x", "farmer">>, <<"u2", "b@x", "admin">> }

HMACAlgs == {"HS256", "HS384"}
Algs == HMACAlgs \cup {"RS256", "none"}

(* jwt.NewNumericDate: a numeric date is truncated to jwt.TimePrecision,   *)
(* one second                                                              *)
NewNumericDate(t) == t - (t % TicksPerSecond)

(* Ideal HMAC over the signing input (header and payload) *)
HMAC(key, alg, claims) == [key |-> key, alg |-> alg, claims |-> claims]

(* A token string is a sequence of chunks; a chunk is either a run of      *)
(* plain characters (kind "w") or one complete compact JWS (kind "tok").   *)
Word(w) == [kind |-> "w", val |-> w]
Tok(jws) == [kind |-> "tok", val |-> jws]
Space == [kind |-> "sp", val |-> " "]

SignedString(alg, claims, key) ==
    <<Tok([alg |-> alg, claims |-> claims, sig |-> HMAC(key, alg, claims)])>>

(* GenerateToken with the role of Register written into every token *)
GenerateTokenFixedRole(j, userID, email, role, t, id) ==
    LET claims == [user_id |-> userID,
                   email   |-> email,
                   role    |-> "farmer",
                   exp     |-> NewNumericDate(t + j.tokenDuration),
                   iat     |-> NewNumericDate(t),
                   nbf     |-> NewNumericDate(t),
                   iss     |-> Issuer,
                   sub     |-> userID,
                   jti     |-> id]
    IN SignedString("HS256", claims, j.secretKey)

GenerateToken(j, userID, email, role, t, id) ==
    LET claims == [user_id |-> userID,
                   email   |-> email,
                   role    |-> role,
                   exp     |-> NewNumericDate(t + j.tokenDuration),
                   iat     |-> NewNumericDate(t),
                   nbf     |-> NewNumericDate(t),
                   iss     |-> Issuer,
                   sub     |-> userID,
                   jti     |-> id]
    IN SignedString("HS256", claims, j.secretKey)

(* jwt.Parser.ParseUnverified: a string splits into header.payload.sig and *)
(* decodes only when it is one complete compact JWS                        *)
WellFormed(tokenString) == Len(tokenString) = 1 /\ tokenString[1].kind = "tok"

(* jwt.Validator for RegisteredClaims with default options: exp is checked *)
(* by now.Before(exp), nbf by !now.Before(nbf); iat is not checked         *)
NoClaims == [user_id |-> "", email |-> "", role |-> "", exp |-> 0, iat |-> 0,
             nbf |-> 0, iss |-> "", sub |-> "", jti |-> 0]

Failed(e) == [ok |-> FALSE, err |-> e, claims |-> NoClaims]

(* jwt.SigningMethodHMAC.Verify with a []byte key; the other methods do    *)
(* not verify with the byte-string secret                                  *)
Verify(alg, key, claims, sig) == alg \in HMACAlgs /\ sig = HMAC(key, alg, claims)

(* ValidateToken with the expiry test of a validator that accepts the      *)
(* instant exp itself                                                       *)
VerifyExpiresAtInclusive(claims, t) == t <= claims.exp

VerifyExpiresAt(claims, t) == t < claims.exp
VerifyNotBefore(claims, t) == t >= claims.nbf

(* ValidateToken variants a slip in the code would produce: one that       *)
(* parses without verifying the signature, one that never looks at exp,    *)
(* one that consults a list of retired tokens                               *)
ValidateTokenUnverified(j, tokenString, t) ==
    IF ~WellFormed(tokenString) THEN Failed("token is malformed")
    ELSE LET token == tokenString[1].val IN
         IF token.alg \notin HMACAlgs THEN Failed("unexpected signing method")
         ELSE IF ~VerifyExpiresAt(token.claims, t) THEN Failed("token is expired")
         ELSE IF ~VerifyNotBefore(token.claims, t) THEN Failed("token is not valid yet")
         ELSE [ok |-> TRUE, err |-> "", claims |-> token.claims]

ValidateTokenNoExpiry(j, tokenString, t) ==
    IF ~WellFormed(tokenString) THEN Failed("token is malformed")
    ELSE LET token == tokenString[1].val IN
         IF token.alg \notin HMACAlgs THEN Failed("unexpected signing method")
         ELSE IF ~Verify(token.alg, j.secretKey, token.claims, token.sig)
              THEN Failed("signature is invalid")
         ELSE IF ~VerifyNotBefore(token.claims, t) THEN Failed("token is not valid yet")
         ELSE [ok |-> TRUE, err |-> "", claims |-> token.claims]

ValidateTokenWithDenylist(j, tokenString, t) ==
    IF tokenString \in retired THEN Failed("token is revoked")
    ELSE IF ~WellFormed(tokenString) THEN Failed("token is malformed")
    ELSE LET token == tokenString[1].val IN
         IF token.alg \notin HMACAlgs THEN Failed("unexpected signing method")
         ELSE IF ~Verify(token.alg, j.secretKey, token.claims, token.sig)
              THEN Failed("signature is invalid")
         ELSE IF ~VerifyExpiresAt(token.claims, t) THEN Failed("token is expired")
         ELSE IF ~VerifyNotBefore(token.claims, t) THEN Failed("token is not valid yet")
         ELSE [ok |-> TRUE, err |-> "", claims |-> token.claims]

(* A variant whose keyfunc hands the secret out for every signing method *)
ValidateTokenAnyMethod(j, tokenString, t) ==
    IF ~WellFormed(tokenString) THEN Failed("token is malformed")
    ELSE LET token == tokenString[1].val IN
         IF ~Verify(token.alg, j.secretKey, token.claims, token.sig)
         THEN Failed("signature is invalid")
         ELSE IF ~VerifyExpiresAt(token.claims, t) THEN Failed("token is expired")
         ELSE IF ~VerifyNotBefore(token.claims, t) THEN Failed("token is not valid yet")
         ELSE [ok |-> TRUE, err |-> "", claims |-> token.claims]

ValidateToken(j, tokenString, t) ==
    IF ~WellFormed(tokenString) THEN Failed("token is malformed")
    ELSE LET token == tokenString[1].val IN
         IF token.alg \notin HMACAlgs THEN Failed("unexpected signing method")
         ELSE IF ~Verify(token.alg, j.secretKey, token.claims, token.sig)
              THEN Failed("signature is invalid")
         ELSE IF ~VerifyExpiresAt(token.claims, t) THEN Failed("token is expired")
         ELSE IF ~VerifyNotBefore(token.claims, t) THEN Failed("token is not valid yet")
         ELSE [ok |-> TRUE, err |-> "", claims |-> token.claims]

(* RefreshToken variants: one that refuses at exactly fifteen minutes, one *)
(* that extends the old expiry and keeps the old token id                  *)
RefreshTokenStrict(j, tokenString, t, id) ==
    LET v == ValidateToken(j, tokenString, t) IN
    IF ~v.ok THEN [ok |-> FALSE, err |-> v.err, token |-> <<>>]
    ELSE IF v.claims.exp - t >= RefreshThreshold
         THEN [ok |-> FALSE, err |-> "token is still valid", token |-> <<>>]
    ELSE [ok |-> TRUE, err |-> "",
          token |-> GenerateToken(j, v.claims.user_id, v.claims.email, v.claims.role, t, id)]

RefreshTokenExtending(j, tokenString, t, id) ==
    LET v == ValidateToken(j, tokenString, t) IN
    IF ~v.ok THEN [ok |-> FALSE, err |-> v.err, token |-> <<>>]
    ELSE IF v.claims.exp - t > RefreshThreshold
         THEN [ok |-> FALSE, err |-> "token is still valid", token |-> <<>>]
    ELSE [ok |-> TRUE, err |-> "",
          token |-> GenerateToken(j, v.claims.user_id, v.claims.email, v.claims.role,
                                  v.claims.exp, id)]

(* Two more: one that still reissues a token whose exp has passed, and one *)
(* that reads the claims of the token without validating it                *)
RefreshTokenWithGrace(j, tokenString, t, id) ==
    LET v == ValidateTokenNoExpiry(j, tokenString, t) IN
    IF ~v.ok THEN [ok |-> FALSE, err |-> v.err, token |-> <<>>]
    ELSE IF t - v.claims.exp > RefreshThreshold
         THEN [ok |-> FALSE, err |-> "token is expired", token |-> <<>>]
    ELSE IF v.claims.exp - t > RefreshThreshold
         THEN [ok |-> FALSE, err |-> "token is still valid", token |-> <<>>]
    ELSE [ok |-> TRUE, err |-> "",
          token |-> GenerateToken(j, v.claims.user_id, v.claims.email, v.claims.role, t, id)]

RefreshTokenUnvalidated(j, tokenString, t, id) ==
    IF ~WellFormed(tokenString) THEN [ok |-> FALSE, err |-> "token is malformed", token |-> <<>>]
    ELSE LET claims == tokenString[1].val.claims IN
         IF claims.exp - t > RefreshThreshold
         THEN [ok |-> FALSE, err |-> "token is still valid", token |-> <<>>]
         ELSE [ok |-> TRUE, err |-> "",
               token |-> GenerateToken(j, claims.user_id, claims.email, claims.role, t, id)]

RefreshToken(j, tokenString, t, id) ==
    LET v == ValidateToken(j, tokenString, t) IN
    IF ~v.ok THEN [ok |-> FALSE, err |-> v.err, token |-> <<>>]
    ELSE IF v.claims.exp - t > RefreshThreshold
         THEN [ok |-> FALSE, err |-> "token is still valid", token |-> <<>>]
    ELSE [ok |-> TRUE, err |-> "",
          token |-> GenerateToken(j, v.claims.user_id, v.claims.email, v.claims.role, t, id)]

---------------------------------------------------------------------------
(* Token strings a client may present: the issued ones, altered copies of  *)
(* them, tokens signed by somebody else, and strings that are no JWS       *)

ForgeKeys == {"other-secret", DefaultSecretKey}

OtherOf(S, x) == CHOOSE y \in S : y # x

PayloadTampered(tk) ==
    { [tk EXCEPT !.claims.role = OtherOf(Roles, @)],
      [tk EXCEPT !.claims.exp = @ + Hour],
      [tk EXCEPT !.claims.nbf = @ + Second] }

SignatureTampered(tk) ==
    ( { [tk EXCEPT !.sig = HMAC(k, tk.alg, tk.claims)] : k \in ForgeKeys }
      \cup { [tk EXCEPT !.sig.claims.jti = @ + 1] } ) \ {tk}

HeaderTampered(tk) == { [tk EXCEPT !.alg = a] : a \in Algs \ {tk.alg} }

Resigned(tk) ==
    { [alg |-> tk.alg, claims |-> c.claims, sig |-> HMAC(k, tk.alg, c.claims)] :
        c \in PayloadTampered(tk), k \in ForgeKeys }

(* Tokens whose header names a method outside the HMAC family, with the    *)
(* payload kept or altered and the signature made with a guessed key       *)
Substituted(tk) ==
    { [alg |-> a, claims |-> c, sig |-> HMAC(k, a, c)] :
        a \in Algs \ HMACAlgs,
        c \in {tk.claims} \cup { x.claims : x \in PayloadTampered(tk) },
        k \in ForgeKeys }

NotJWS == { <<>>, <<Word("garbage")>> }

Presentable ==
    issued
    \cup { <<Tok(x)>> : x \in UNION { PayloadTampered(ts[1].val) \cup SignatureTampered(ts[1].val)
                                       \cup HeaderTampered(ts[1].val) \cup Resigned(ts[1].val)
                                       \cup Substituted(ts[1].val)
                                       : ts \in issued } }
    \cup NotJWS

---------------------------------------------------------------------------
(* HTTP layer: gin context, response helpers, middleware, handlers, routes *)

StatusOK == 200
StatusBadRequest == 400
StatusUnauthorized == 401
StatusNotFound == 404
StatusInternalServerError == 500

(* strings.Split(s, " ") on a sequence of chunks *)
RECURSIVE Split(_)
Split(s) ==
    IF \A i \in 1..Len(s) : s[i] # Space THEN <<s>>
    ELSE LET i == CHOOSE k \in 1..Len(s) :
                      s[k] = Space /\ \A m \in 1..(k - 1) : s[m] # Space
         IN <<SubSeq(s, 1, i - 1)>> \o Split(SubSeq(s, i + 1, Len(s)))

(* gin.Context: Set, Get, JSON, Abort, Next.  keys is the set of           *)
(* (key, value) pairs of c.Keys, written the sequence of bodies written    *)
CtxSet(c, k, v) == [c EXCEPT !.keys = { p \in @ : p[1] # k } \cup { <<k, v>> }]
CtxHas(c, k) == \E p \in c.keys : p[1] = k
CtxGet(c, k) == (CHOOSE p \in c.keys : p[1] = k)[2]
CtxJSON(c, status, body) ==
    [c EXCEPT !.written = Append(@, [status |-> status, body |-> body])]
CtxAbort(c) == [c EXCEPT !.aborted = TRUE]
CtxNext(c) == [c EXCEPT !.index = @ + 1]

(* time.Now().Format(time.RFC3339): the time to the second *)
RFC3339(t) == t - (t % TicksPerSecond)

NoError == [code |-> "", message |-> "", details |-> ""]
NoMeta == [timestamp |-> 0, version |-> "", requestId |-> ""]
Body(success, data, message, error, meta) ==
    [success |-> success, data |-> data, message |-> message,
     error |-> error, meta |-> meta]

(* A handler that panics writes nothing itself; gin's recovery answers 500 *)
Panic(c) == CtxAbort(CtxJSON(c, StatusInternalServerError,
                             Body(FALSE, <<>>, "", NoError, NoMeta)))

SuccessResponse(c, data, message) ==
    IF ~CtxHas(c, "request_id") THEN Panic(c)
    ELSE CtxJSON(c, StatusOK,
                 Body(TRUE, data, message, NoError,
                      [timestamp |-> RFC3339(c.at), version |-> "1.0",
                       requestId |-> CtxGet(c, "request_id")]))

ErrorResponse(c, statusCode, code, message, details) ==
    IF ~CtxHas(c, "request_id") THEN Panic(c)
    ELSE CtxJSON(c, statusCode,
                 Body(FALSE, <<>>, "",
                      [code |-> code, message |-> message, details |-> details],
                      [timestamp |-> RFC3339(c.at), version |-> "1.0",
                       requestId |-> CtxGet(c, "request_id")]))

GetUserID(c) ==
    IF ~CtxHas(c, "user_id") THEN [ok |-> FALSE, userID |-> ""]
    ELSE [ok |-> TRUE, userID |-> CtxGet(c, "user_id")]

(* middleware.RequestID *)
RequestID(c) ==
    LET requestID == IF c.xRequestID = "" THEN "uuid" ELSE c.xRequestID
    IN CtxNext(CtxSet(c, "request_id", requestID))

AuthError(code, message) ==
    Body(FALSE, <<>>, "", [code |-> code, message |-> message, details |-> ""], NoMeta)

(* Auth variants: one that answers 401 for a rejected token but forgets   *)
(* c.Abort(), one that forgets to set user_role, one that looks at the     *)
(* shape of the header before it looks for its absence                      *)
AuthWithoutAbort(c, e, t) ==
    LET authHeader == c.authorization IN
    IF authHeader = <<>>
    THEN CtxAbort(CtxJSON(c, StatusUnauthorized,
                          AuthError("MISSING_TOKEN", "Authorization token gerekli")))
    ELSE LET tokenParts == Split(authHeader) IN
         IF Len(tokenParts) # 2 \/ tokenParts[1] # <<Word("Bearer")>>
         THEN CtxAbort(CtxJSON(c, StatusUnauthorized,
                               AuthError("INVALID_TOKEN_FORMAT", "Gecersiz token formati")))
         ELSE LET tokenString == tokenParts[2]
                  v == ValidateToken(NewJWTManager(e), tokenString, t)
              IN IF ~v.ok
                 THEN CtxNext(CtxJSON(c, StatusUnauthorized,
                                      AuthError("INVALID_TOKEN",
                                                "Gecersiz veya suresi dolmus token")))
                 ELSE CtxNext(CtxSet(CtxSet(CtxSet(c, "user_id", v.claims.user_id),
                                            "user_email", v.claims.email),
                                     "user_role", v.claims.role))

AuthWithoutRole(c, e, t) ==
    LET authHeader == c.authorization IN
    IF authHeader = <<>>
    THEN CtxAbort(CtxJSON(c, StatusUnauthorized,
                          AuthError("MISSING_TOKEN", "Authorization token gerekli")))
    ELSE LET tokenParts == Split(authHeader) IN
         IF Len(tokenParts) # 2 \/ tokenParts[1] # <<Word("Bearer")>>
         THEN CtxAbort(CtxJSON(c, StatusUnauthorized,
                               AuthError("INVALID_TOKEN_FORMAT", "Gecersiz token formati")))
         ELSE LET tokenString == tokenParts[2]
                  v == ValidateToken(NewJWTManager(e), tokenString, t)
              IN IF ~v.ok
                 THEN CtxAbort(CtxJSON(c, StatusUnauthorized,
                                       AuthError("INVALID_TOKEN",
                                                 "Gecersiz veya suresi dolmus token")))
                 ELSE CtxNext(CtxSet(CtxSet(c, "user_id", v.claims.user_id),
                                     "user_email", v.claims.email))

AuthFormatFirst(c, e, t) ==
    LET authHeader == c.authorization
        tokenParts == Split(authHeader)
    IN
    IF Len(tokenParts) # 2 \/ tokenParts[1] # <<Word("Bearer")>>
    THEN CtxAbort(CtxJSON(c, StatusUnauthorized,
                          AuthError("INVALID_TOKEN_FORMAT", "Gecersiz token formati")))
    ELSE IF authHeader = <<>>
    THEN CtxAbort(CtxJSON(c, StatusUnauthorized,
                          AuthError("MISSING_TOKEN", "Authorization token gerekli")))
    ELSE LET tokenString == tokenParts[2]
             v == ValidateToken(NewJWTManager(e), tokenString, t)
         IN IF ~v.ok
            THEN CtxAbort(CtxJSON(c, StatusUnauthorized,
                                  AuthError("INVALID_TOKEN",
                                            "Gecersiz veya suresi dolmus token")))
            ELSE CtxNext(CtxSet(CtxSet(CtxSet(c, "user_id", v.claims.user_id),
                                       "user_email", v.claims.email),
                                "user_role", v.claims.role))

(* A variant that validates with the default key whatever the environment *)
(* says                                                                    *)
AuthDefaultSecret(c, e, t) ==
    LET authHeader == c.authorization IN
    IF authHeader = <<>>
    THEN CtxAbort(CtxJSON(c, StatusUnauthorized,
                          AuthError("MISSING_TOKEN", "Authorization token gerekli")))
    ELSE LET tokenParts == Split(authHeader) IN
         IF Len(tokenParts) # 2 \/ tokenParts[1] # <<Word("Bearer")>>
         THEN CtxAbort(CtxJSON(c, StatusUnauthorized,
                               AuthError("INVALID_TOKEN_FORMAT", "Gecersiz token formati")))
         ELSE LET tokenString == tokenParts[2]
                  v == ValidateToken([NewJWTManager(e) EXCEPT !.secretKey = DefaultSecretKey],
                                     tokenString, t)
              IN IF ~v.ok
                 THEN CtxAbort(CtxJSON(c, StatusUnauthorized,
                                       AuthError("INVALID_TOKEN",
                                                 "Gecersiz veya suresi dolmus token")))
                 ELSE CtxNext(CtxSet(CtxSet(CtxSet(c, "user_id", v.claims.user_id),
                                            "user_email", v.claims.email),
                                     "user_role", v.claims.role))

(* middleware.Auth, run at time t in environment e *)
Auth(c, e, t) ==
    LET authHeader == c.authorization IN
    IF authHeader = <<>>
    THEN CtxAbort(CtxJSON(c, StatusUnauthorized,
                          AuthError("MISSING_TOKEN", "Authorization token gerekli")))
    ELSE LET tokenParts == Split(authHeader) IN
         IF Len(tokenParts) # 2 \/ tokenParts[1] # <<Word("Bearer")>>
         THEN CtxAbort(CtxJSON(c, StatusUnauthorized,
                               AuthError("INVALID_TOKEN_FORMAT", "Gecersiz token formati")))
         ELSE LET tokenString == tokenParts[2]
                  v == ValidateToken(NewJWTManager(e), tokenString, t)
              IN IF ~v.ok
                 THEN CtxAbort(CtxJSON(c, StatusUnauthorized,
                                       AuthError("INVALID_TOKEN",
                                                 "Gecersiz veya suresi dolmus token")))
                 ELSE CtxNext(CtxSet(CtxSet(CtxSet(c, "user_id", v.claims.user_id),
                                            "user_email", v.claims.email),
                                     "user_role", v.claims.role))

(* AuthHandler.Logout *)
Logout(c) == SuccessResponse(c, <<>>, "Basariyla cikis yapildi")

(* AuthHandler.GetProfile against the users table tbl *)
GetProfile(c, tbl) ==
    LET u == GetUserID(c) IN
    IF ~u.ok
    THEN ErrorResponse(c, StatusUnauthorized, "UNAUTHORIZED",
                       "Kullanici kimligi dogrulanamadi", "")
    ELSE LET q == [c EXCEPT !.dbOps = @ + 1]
             rows == { r \in tbl : r.id = u.userID }
         IN IF rows = {} \/ \E r \in rows : r.avatar = "NULL"
            THEN ErrorResponse(q, StatusNotFound, "USER_NOT_FOUND",
                               "Kullanici bulunamadi", "scan error")
            ELSE SuccessResponse(q, <<u.userID>>, "Profil bilgileri basariyla getirildi")

(* AuthHandler.Refresh: r is the result of jwtManager.RefreshToken on the   *)
(* refreshToken of the body, looked at only when the body carries one       *)
Refresh(c, r) ==
    IF c.body.json # "ok"
    THEN ErrorResponse(c, StatusBadRequest, "INVALID_REQUEST",
                       "Gecersiz istek formati", "bind error")
    ELSE IF ~c.body.has
    THEN ErrorResponse(c, StatusBadRequest, "MISSING_TOKEN", "Refresh token gerekli", "")
    ELSE IF ~r.ok
    THEN ErrorResponse(c, StatusUnauthorized, "INVALID_TOKEN",
                       "Gecersiz refresh token", r.err)
    ELSE SuccessResponse(c, r.token, "Token basariyla yenilendi")

(* routes.SetupRoutes: the handlers chain of each route *)
Routes == {"POST /auth/refresh", "POST /auth/logout", "GET /auth/profile"}

HandlersChain(route) ==
    CASE route = "POST /auth/refresh"  -> <<"RequestID", "Refresh">>
      [] route = "POST /auth/logout"   -> <<"RequestID", "Auth", "Logout">>
      [] route = "GET /auth/profile"   -> <<"RequestID", "Auth", "GetProfile">>
      [] route = "POST /auth/register" -> <<"RequestID", "Register">>
      [] route = "POST /auth/login"    -> <<"RequestID", "Login">>
      [] route = "GET /lands"          -> <<"RequestID", "Auth", "GetLands">>
      [] route = "POST /lands"         -> <<"RequestID", "Auth", "CreateLand">>
      [] route = "GET /lands/:id"      -> <<"RequestID", "Auth", "GetLand">>
      [] route = "PUT /lands/:id"      -> <<"RequestID", "Auth", "UpdateLand">>
      [] route = "DELETE /lands/:id"   -> <<"RequestID", "Auth", "DeleteLand">>
      [] route = "GET /livestock"      -> <<"RequestID", "Auth", "GetLivestock">>
      [] route = "GET /livestock/:id"  -> <<"RequestID", "Auth", "GetLivestock">>
      [] route = "DELETE /calendar/events/:id" -> <<"RequestID", "Auth", "DeleteEvent">>
      [] route = "PATCH /calendar/events/:id/status"
                                       -> <<"RequestID", "Auth", "UpdateEventStatus">>
      [] route = "PUT /auth/change-password"
                                       -> <<"RequestID", "Auth", "ChangePassword">>
      [] route = "PUT /auth/profile"   -> <<"RequestID", "Auth", "UpdateProfile">>
      [] route = "POST /lands/:id/activities"
                                       -> <<"RequestID", "Auth", "CreateLandActivity">>

BehindAuth(route) == \E i \in 1..Len(HandlersChain(route)) : HandlersChain(route)[i] = "Auth"

(* The handler gin runs next for the request, "none" when the chain ended  *)
(* or was aborted                                                           *)
Current(c) ==
    IF c.active /\ ~c.aborted /\ c.index <= Len(HandlersChain(c.route))
    THEN HandlersChain(c.route)[c.index] ELSE "none"

---------------------------------------------------------------------------
(* utils: identifiers and passwords                                        *)

StatusCreated == 201
StatusConflict == 409

(* utils.GenerateID: a uuid, that is an identifier no row of the table has *)
GenerateID(pool, tbl) == CHOOSE id \in pool : \A r \in tbl : r.id # id

(* A password is a sequence of bytes.  bcrypt appends a NUL byte to it and *)
(* feeds the result cyclically into the 72 bytes of the Blowfish key       *)
(* schedule: EffectiveKey is all that the digest depends on.               *)
BcryptCost == 14
MaxPasswordBytes == 72

EffectiveKey(password) ==
    LET ckey == Append(password, 0)
    IN [i \in 1..MaxPasswordBytes |-> ckey[((i - 1) % Len(ckey)) + 1]]

NoHash == [kind |-> "text", cost |-> 0, salt |-> 0, key |-> <<>>]

(* bcrypt.GenerateFromPassword.  Releases of golang.org/x/crypto from      *)
(* v0.5.0 on refuse a password of more than 72 bytes, earlier ones use its *)
(* first 72 bytes; rejectLong tells which one the build links.             *)
GenerateFromPassword(password, cost, salt, rejectLong) ==
    IF rejectLong /\ Len(password) > MaxPasswordBytes
    THEN [ok |-> FALSE, hash |-> NoHash]
    ELSE [ok |-> TRUE,
          hash |-> [kind |-> "bcrypt", cost |-> cost, salt |-> salt,
                    key |-> EffectiveKey(password)]]

(* bcrypt.CompareHashAndPassword: nil exactly when the stored text is a    *)
(* bcrypt hash and hashing the password with its cost and salt gives it    *)
CompareHashAndPassword(hash, password) ==
    /\ hash.kind = "bcrypt"
    /\ hash.key = EffectiveKey(password)

HashPassword(password, salt, rejectLong) ==
    GenerateFromPassword(password, BcryptCost, salt, rejectLong)

(* A variant that compares the password with the stored text itself *)
CheckPasswordPlain(password, hash) == hash.key = password

CheckPassword(password, hash) == CompareHashAndPassword(hash, password)

---------------------------------------------------------------------------
(* utils: pagination.  A query parameter is absent, a number, or text that *)
(* is no number                                                            *)

Absent == [set |-> FALSE, num |-> FALSE, val |-> 0]
Num(n) == [set |-> TRUE, num |-> TRUE, val |-> n]
Junk == [set |-> TRUE, num |-> FALSE, val |-> 0]

DefaultPage == 1
DefaultLimit == 10
MaxLimit == 100

(* strconv.Atoi(c.DefaultQuery(key, default)) with the error dropped *)
AtoiDefaultQuery(q, default) ==
    IF ~q.set THEN default ELSE IF q.num THEN q.val ELSE 0

ParsePagination(c) ==
    LET page == AtoiDefaultQuery(c.query.page, DefaultPage)
        limit == AtoiDefaultQuery(c.query.limit, DefaultLimit)
    IN [page |-> IF page < 1 THEN DefaultPage ELSE page,
        limit |-> IF limit < 1 \/ limit > MaxLimit THEN DefaultLimit ELSE limit]

(* A variant without the floor of one page *)
CalculatePaginationCeil(page, limit, total) ==
    [page |-> page, limit |-> limit, total |-> total,
     totalPages |-> (total + limit - 1) \div limit]

CalculatePagination(page, limit, total) ==
    LET totalPages == (total + limit - 1) \div limit
    IN [page |-> page, limit |-> limit, total |-> total,
        totalPages |-> IF totalPages < 1 THEN 1 ELSE totalPages]

(* ... ORDER BY created_at DESC LIMIT limit OFFSET offset, on the rows in  *)
(* an order the database may give them in                                  *)
LimitOffset(order, limit, offset) ==
    IF offset >= Len(order) THEN <<>>
    ELSE SubSeq(order, offset + 1,
                IF offset + limit > Len(order) THEN Len(order) ELSE offset + limit)

(* The orders ORDER BY created_at DESC may give the rows in: rows of the   *)
(* same second come in any order                                           *)
Orderings(rows) ==
    { o \in [1..Cardinality(rows) -> rows] :
        /\ \A i, k \in 1..Cardinality(rows) : i # k => o[i] # o[k]
        /\ \A i, k \in 1..Cardinality(rows) : i < k => o[i].created_at >= o[k].created_at }

---------------------------------------------------------------------------
(* LandHandler and LivestockHandler.  A handler gives the context it       *)
(* leaves and the tables it leaves.  The body of a land request: json      *)
(* tells whether it binds to models.Land, then come the fields.            *)

LandIDs == {"l1", "l2", "l3"}
AnimalIDs == {"a1", "a2"}

Served(c, tbl) == [c |-> c, tables |-> tbl]

IsEmptyString(str) == str \in {"", " "}

Unauthorized(c) ==
    ErrorResponse(c, StatusUnauthorized, "UNAUTHORIZED",
                  "Kullanici kimligi dogrulanamadi", "")

(* A variant that looks the land up by its id alone *)
GetLandOfAnyone(c, tbl) ==
    LET u == GetUserID(c) IN
    IF ~u.ok THEN Served(Unauthorized(c), tbl)
    ELSE LET landID == c.param IN
    IF IsEmptyString(landID)
    THEN Served(ErrorResponse(c, StatusBadRequest, "MISSING_ID", "Arazi ID gerekli", ""), tbl)
    ELSE LET q == [c EXCEPT !.dbOps = @ + 1]
             rows == { r \in tbl.lands : r.id = landID }
         IN IF rows = {}
            THEN Served(ErrorResponse(q, StatusNotFound, "LAND_NOT_FOUND",
                                      "Arazi bulunamadi", ""), tbl)
            ELSE Served(SuccessResponse(q, CHOOSE r \in rows : TRUE,
                                        "Arazi detaylari basariyla getirildi"), tbl)

GetLand(c, tbl) ==
    LET u == GetUserID(c) IN
    IF ~u.ok THEN Served(Unauthorized(c), tbl)
    ELSE LET landID == c.param IN
    IF IsEmptyString(landID)
    THEN Served(ErrorResponse(c, StatusBadRequest, "MISSING_ID", "Arazi ID gerekli", ""), tbl)
    ELSE LET q == [c EXCEPT !.dbOps = @ + 1]
             rows == { r \in tbl.lands : r.id = landID /\ r.user_id = u.userID }
         IN IF rows = {}
            THEN Served(ErrorResponse(q, StatusNotFound, "LAND_NOT_FOUND",
                                      "Arazi bulunamadi", ""), tbl)
            ELSE Served(SuccessResponse(q, CHOOSE r \in rows : TRUE,
                                        "Arazi detaylari basariyla getirildi"), tbl)

(* UPDATE lands SET ... WHERE id = ? AND user_id = ?, then GetLand *)
UpdateLand(c, tbl) ==
    LET u == GetUserID(c) IN
    IF ~u.ok THEN Served(Unauthorized(c), tbl)
    ELSE LET landID == c.param IN
    IF IsEmptyString(landID)
    THEN Served(ErrorResponse(c, StatusBadRequest, "MISSING_ID", "Arazi ID gerekli", ""), tbl)
    ELSE IF c.body.json # "ok"
    THEN Served(ErrorResponse(c, StatusBadRequest, "INVALID_REQUEST",
                              "Gecersiz istek formati", "bind error"), tbl)
    ELSE LET updated ==
               { IF r.id = landID /\ r.user_id = u.userID
                 THEN [r EXCEPT !.name = c.body.name, !.area = c.body.area,
                                !.unit = c.body.unit, !.status = c.body.status]
                 ELSE r : r \in tbl.lands }
         IN GetLand([c EXCEPT !.dbOps = @ + 1], [tbl EXCEPT !.lands = updated])

DeleteLand(c, tbl) ==
    LET u == GetUserID(c) IN
    IF ~u.ok THEN Served(Unauthorized(c), tbl)
    ELSE LET landID == c.param IN
    IF IsEmptyString(landID)
    THEN Served(ErrorResponse(c, StatusBadRequest, "MISSING_ID", "Arazi ID gerekli", ""), tbl)
    ELSE LET q == [c EXCEPT !.dbOps = @ + 1]
             rows == { r \in tbl.lands : r.id = landID /\ r.user_id = u.userID }
         IN IF rows = {}
            THEN Served(ErrorResponse(q, StatusNotFound, "LAND_NOT_FOUND",
                                      "Arazi bulunamadi", ""), tbl)
            ELSE Served(SuccessResponse(q, <<>>, "Arazi basariyla silindi"),
                        [tbl EXCEPT !.lands = @ \ rows])

(* The 201 of a create handler is written with c.JSON and an APIResponse   *)
(* that has no Meta                                                        *)
CreateLand(c, tbl, t) ==
    LET u == GetUserID(c) IN
    IF ~u.ok THEN Served(Unauthorized(c), tbl)
    ELSE IF c.body.json # "ok"
    THEN Served(ErrorResponse(c, StatusBadRequest, "INVALID_REQUEST",
                              "Gecersiz istek formati", "bind error"), tbl)
    ELSE IF IsEmptyString(c.body.name) \/ c.body.area <= 0 \/ IsEmptyString(c.body.unit)
    THEN Served(ErrorResponse(c, StatusBadRequest, "MISSING_FIELDS",
                              "Gerekli alanlar eksik", ""), tbl)
    ELSE LET landID == GenerateID(LandIDs, tbl.lands)
             land == [id |-> landID, user_id |-> u.userID, name |-> c.body.name,
                      area |-> c.body.area, unit |-> c.body.unit, status |-> "active",
                      created_at |-> RFC3339(t)]
         IN Served(CtxJSON([c EXCEPT !.dbOps = @ + 2], StatusCreated,
                           Body(TRUE, land, "Arazi basariyla olusturuldu", NoError, NoMeta)),
                   [tbl EXCEPT !.lands = @ \cup {land}])

(* GetLands, with the order the database gives the caller's lands in *)
Filtered(rows, userID, status) ==
    { r \in rows : r.user_id = userID /\ (status # "all" => r.status = status) }

StatusQuery(c) == IF c.query.status = "" THEN "all" ELSE c.query.status

GetLands(c, tbl, order) ==
    LET u == GetUserID(c) IN
    IF ~u.ok THEN Served(Unauthorized(c), tbl)
    ELSE LET p == ParsePagination(c)
             total == Cardinality(Filtered(tbl.lands, u.userID, StatusQuery(c)))
             pagination == CalculatePagination(p.page, p.limit, total)
             offset == (p.page - 1) * p.limit
             lands == LimitOffset(order, p.limit, offset)
         IN Served(SuccessResponse([c EXCEPT !.dbOps = @ + 2],
                                   [rows |-> lands, pagination |-> pagination],
                                   "Araziler basariyla getirildi"), tbl)

(* LivestockHandler.GetLivestock, the list of the caller's animals *)
GetLivestock(c, tbl, order) ==
    LET u == GetUserID(c) IN
    IF ~u.ok THEN Served(Unauthorized(c), tbl)
    ELSE LET p == ParsePagination(c)
             total == Cardinality(Filtered(tbl.livestock, u.userID, StatusQuery(c)))
             pagination == CalculatePagination(p.page, p.limit, total)
             offset == (p.page - 1) * p.limit
             animals == LimitOffset(order, p.limit, offset)
         IN Served(SuccessResponse([c EXCEPT !.dbOps = @ + 2],
                                   [rows |-> animals, pagination |-> pagination],
                                   "Hayvanlar basariyla getirildi"), tbl)

(* LivestockHandler.GetLivestockByID, which no route leads to *)
GetLivestockByID(c, tbl) ==
    LET u == GetUserID(c) IN
    IF ~u.ok THEN Served(Unauthorized(c), tbl)
    ELSE LET animalID == c.param IN
    IF IsEmptyString(animalID)
    THEN Served(ErrorResponse(c, StatusBadRequest, "MISSING_ID", "Hayvan ID gerekli", ""), tbl)
    ELSE LET q == [c EXCEPT !.dbOps = @ + 1]
             rows == { r \in tbl.livestock : r.id = animalID /\ r.user_id = u.userID }
         IN IF rows = {}
            THEN Served(ErrorResponse(q, StatusNotFound, "ANIMAL_NOT_FOUND",
                                      "Hayvan bulunamadi", ""), tbl)
            ELSE Served(SuccessResponse(q, CHOOSE r \in rows : TRUE,
                                        "Hayvan detaylari basariyla getirildi"), tbl)

(* AuthHandler.Register and AuthHandler.Login.  The body of their request  *)
(* is a record: json tells whether it is JSON with every required field    *)
(* and a well-formed email, then come the fields.  Each handler gives the  *)
(* context it leaves, the users table it leaves and the tokens it issued.  *)
MinPasswordLen == 6

BindRegister(b) == b.json = "ok" /\ Len(b.password) >= MinPasswordLen /\ Len(b.confirmPassword) >= 1
BindLogin(b) == b.json = "ok" /\ Len(b.password) >= 1

Handled(c, tbl) == [c |-> c, users |-> tbl, tokens |-> <<>>]

Register(c, j, tbl, t, salt, rejectLong, id) ==
    LET b == c.body IN
    IF ~BindRegister(b)
    THEN Handled(ErrorResponse(c, StatusBadRequest, "INVALID_REQUEST",
                               "Gecersiz istek formati", "bind error"), tbl)
    ELSE IF b.password # b.confirmPassword
    THEN Handled(ErrorResponse(c, StatusBadRequest, "PASSWORD_MISMATCH",
                               "Sifreler eslesmiyor", ""), tbl)
    ELSE LET q == [c EXCEPT !.dbOps = @ + 1] IN
    IF \E r \in tbl : r.email = b.email
    THEN Handled(ErrorResponse(q, StatusConflict, "EMAIL_EXISTS",
                               "Bu email adresi zaten kullanimda", ""), tbl)
    ELSE LET h == HashPassword(b.password, salt, rejectLong) IN
    IF ~h.ok
    THEN Handled(ErrorResponse(q, StatusInternalServerError, "HASH_ERROR",
                               "Sifre hash'lenemedi", "password too long"), tbl)
    ELSE LET userID == GenerateID(UserIDs, tbl)
             row == [id |-> userID, email |-> b.email, password |-> h.hash,
                     role |-> "farmer", avatar |-> "NULL"]
             token == GenerateToken(j, userID, b.email, "farmer", t, id)
             refreshToken == GenerateToken(j, userID, b.email, "farmer", t, id + 1)
         IN [c |-> SuccessResponse([q EXCEPT !.dbOps = @ + 1],
                                   [user |-> userID, token |-> token,
                                    refreshToken |-> refreshToken],
                                   "Kullanici basariyla olusturuldu"),
             users |-> tbl \cup {row},
             tokens |-> <<token, refreshToken>>]

(* A variant that tells the caller when no row has the email *)
LoginTellsUnknown(c, j, tbl, t, id) ==
    LET b == c.body IN
    IF ~BindLogin(b)
    THEN Handled(ErrorResponse(c, StatusBadRequest, "INVALID_REQUEST",
                               "Gecersiz istek formati", "bind error"), tbl)
    ELSE LET q == [c EXCEPT !.dbOps = @ + 1]
             rows == { r \in tbl : r.email = b.email }
         IN
    IF rows = {}
    THEN Handled(ErrorResponse(q, StatusNotFound, "USER_NOT_FOUND",
                               "Kullanici bulunamadi", ""), tbl)
    ELSE IF \E r \in rows : r.avatar = "NULL" \/ ~CheckPassword(b.password, r.password)
    THEN Handled(ErrorResponse(q, StatusUnauthorized, "INVALID_CREDENTIALS",
                               "Gecersiz email veya sifre", ""), tbl)
    ELSE LET user == CHOOSE r \in rows : TRUE
             token == GenerateToken(j, user.id, user.email, user.role, t, id)
             refreshToken == GenerateToken(j, user.id, user.email, user.role, t, id + 1)
         IN [c |-> SuccessResponse(q, [user |-> user.id, token |-> token,
                                       refreshToken |-> refreshToken],
                                   "Giris basarili"),
             users |-> tbl,
             tokens |-> <<token, refreshToken>>]

(* Scanning the row into models.User fails when its avatar is NULL *)
Login(c, j, tbl, t, id) ==
    LET b == c.body IN
    IF ~BindLogin(b)
    THEN Handled(ErrorResponse(c, StatusBadRequest, "INVALID_REQUEST",
                               "Gecersiz istek formati", "bind error"), tbl)
    ELSE LET q == [c EXCEPT !.dbOps = @ + 1]
             rows == { r \in tbl : r.email = b.email }
         IN
    IF rows = {} \/ \E r \in rows : r.avatar = "NULL"
    THEN Handled(ErrorResponse(q, StatusUnauthorized, "INVALID_CREDENTIALS",
                               "Gecersiz email veya sifre", ""), tbl)
    ELSE LET user == CHOOSE r \in rows : TRUE IN
    IF ~CheckPassword(b.password, user.password)
    THEN Handled(ErrorResponse(q, StatusUnauthorized, "INVALID_CREDENTIALS",
                               "Gecersiz email veya sifre", ""), tbl)
    ELSE LET token == GenerateToken(j, user.id, user.email, user.role, t, id)
             refreshToken == GenerateToken(j, user.id, user.email, user.role, t, id + 1)
         IN [c |-> SuccessResponse(q, [user |-> user.id, token |-> token,
                                       refreshToken |-> refreshToken],
                                   "Giris basarili"),
             users |-> tbl,
             tokens |-> <<token, refreshToken>>]

---------------------------------------------------------------------------
(* State *)

NoCall == [op |-> "none", arg |-> <<>>, at |-> 0, ok |-> FALSE, err |-> "",
           claims |-> NoClaims, token |-> <<>>]

NoBody == [json |-> "none", has |-> FALSE, refreshToken |-> <<>>]

NoRequest == [active |-> FALSE, route |-> "", authorization |-> <<>>,
              xRequestID |-> "", param |-> "", query |-> <<>>, body |-> NoBody,
              at |-> 0, index |-> 1, aborted |-> FALSE,
              keys |-> {}, written |-> <<>>, dbOps |-> 0, ran |-> {}, authAt |-> 0]

(* The users table as an earlier run of the server left it: one user,      *)
(* inserted by Register, which sets no avatar                              *)
InitialPassword == <<1, 2, 3, 4, 5, 6>>

InitialUsers ==
    { [id |-> "u1", email |-> "a@x",
       password |-> HashPassword(InitialPassword, 1, TRUE).hash,
       role |-> "farmer", avatar |-> "NULL"] }

(* The other tables, empty as createTables leaves them *)
InitialTables == [lands |-> {}, livestock |-> {}]

Init ==
    /\ now \in 0..MaxStart
    /\ env \in Environments
    /\ jwtManager = NewJWTManager(env)
    /\ users = InitialUsers
    /\ tables = InitialTables
    /\ issued = {}
    /\ nextJti = 1
    /\ last = NoCall
    /\ req = NoRequest
    /\ retired = {}
    /\ inflight = <<>>

(* The clock.  It moves to the next instant at which something can change: *)
(* around the expiry of an issued token and around the instant from which  *)
(* the token may be refreshed.                                             *)
ExpiryOffsets == {0 - Second, 0, 1}
RefreshOffsets == {0 - 1, 0}

MarksOf(claims) ==
    { claims.exp + k : k \in ExpiryOffsets }
    \cup { claims.exp - RefreshThreshold + k : k \in RefreshOffsets }

Marks == (0..MaxStart) \cup UNION { MarksOf(ts[1].val.claims) : ts \in issued }

Tick ==
    /\ last.op = "none" /\ ~req.active
    /\ \E t \in Marks : t > now /\ now' = t
    /\ UNCHANGED <<inflight, tables, env, jwtManager, users, issued, nextJti, last, req, retired>>

(* Direct calls of the JWTManager methods *)
CallGenerateToken ==
    /\ last.op = "none" /\ ~req.active
    /\ nextJti <= MaxTokens
    /\ \E id \in Identities :
         LET userID == id[1]
             email == id[2]
             role == id[3]
             ts == GenerateToken(jwtManager, userID, email, role, now, nextJti) IN
         /\ issued' = issued \cup {ts}
         /\ last' = [NoCall EXCEPT !.op = "GenerateToken", !.at = now, !.ok = TRUE,
                                   !.claims = [NoClaims EXCEPT !.user_id = userID,
                                                               !.email = email,
                                                               !.role = role],
                                   !.token = ts]
    /\ nextJti' = nextJti + 1
    /\ UNCHANGED <<inflight, tables, now, env, jwtManager, users, req, retired>>

CallValidateToken ==
    /\ last.op = "none" /\ ~req.active
    /\ \E ts \in Presentable :
         LET v == ValidateToken(jwtManager, ts, now) IN
         last' = [NoCall EXCEPT !.op = "ValidateToken", !.arg = ts, !.at = now,
                                !.ok = v.ok, !.err = v.err, !.claims = v.claims]
    /\ UNCHANGED <<inflight, tables, now, env, jwtManager, users, issued, nextJti, req, retired>>

CallRefreshToken ==
    /\ last.op = "none" /\ ~req.active
    /\ nextJti <= MaxTokens
    /\ \E ts \in Presentable :
         LET r == RefreshToken(jwtManager, ts, now, nextJti) IN
         /\ last' = [NoCall EXCEPT !.op = "RefreshToken", !.arg = ts, !.at = now,
                                   !.ok = r.ok, !.err = r.err, !.token = r.token]
         /\ issued' = IF r.ok THEN issued \cup {r.token} ELSE issued
         /\ nextJti' = IF r.ok THEN nextJti + 1 ELSE nextJti
         /\ retired' = IF r.ok THEN retired \cup {ts} ELSE retired
    /\ UNCHANGED <<inflight, tables, now, env, jwtManager, users, req>>

(* The caller takes the result; the next call may begin *)
Return ==
    /\ last.op # "none"
    /\ last' = NoCall
    /\ UNCHANGED <<inflight, tables, now, env, jwtManager, users, issued, nextJti, req, retired>>

(* Requests.  A client sends a request; gin runs the handlers of the      *)
(* route's chain one after the other until the chain ends or is aborted.   *)
Bearer(ts) == <<Word("Bearer"), Space>> \o ts

(* What requests carry: an issued token, one altered copy of it, a token   *)
(* signed by somebody else, or a string that is no JWS                     *)
Carried ==
    issued
    \cup { <<Tok([ts[1].val EXCEPT !.claims.role = OtherOf(Roles, @)])>> : ts \in issued }
    \cup { <<Tok([ts[1].val EXCEPT !.sig = HMAC("other-secret", @.alg, @.claims)])>> :
              ts \in issued }
    \cup NotJWS

Headers ==
    { <<>>, <<Word("Bearer")>> }
    \cup { Bearer(ts) : ts \in Carried }
    \cup UNION { { ts,
                   <<Word("Basic"), Space>> \o ts,
                   <<Word("Bearer"), Space, Space>> \o ts } : ts \in issued }

Bodies ==
    { [NoBody EXCEPT !.json = "bad"], [NoBody EXCEPT !.json = "ok"] }
    \cup { [json |-> "ok", has |-> TRUE, refreshToken |-> ts] : ts \in Carried }

XRequestIDs == {""}

NewRequest ==
    /\ last.op = "none" /\ ~req.active
    /\ \E route \in Routes, x \in XRequestIDs :
         \/ /\ BehindAuth(route)
            /\ \E h \in Headers :
                 req' = [NoRequest EXCEPT !.active = TRUE, !.route = route, !.at = now,
                                          !.xRequestID = x, !.authorization = h]
         \/ /\ ~BehindAuth(route)
            /\ \E b \in Bodies :
                 req' = [NoRequest EXCEPT !.active = TRUE, !.route = route, !.at = now,
                                          !.xRequestID = x, !.body = b]
    /\ UNCHANGED <<inflight, tables, now, env, jwtManager, users, issued, nextJti, last, retired>>

Ran(c, name) == [c EXCEPT !.ran = @ \cup {name}]

RunRequestID ==
    /\ Current(req) = "RequestID"
    /\ req' = RequestID(Ran(req, "RequestID"))
    /\ UNCHANGED <<inflight, tables, now, env, jwtManager, users, issued, nextJti, last, retired>>

RunAuth ==
    /\ Current(req) = "Auth"
    /\ req' = [Auth(Ran(req, "Auth"), env, now) EXCEPT !.authAt = now]
    /\ UNCHANGED <<inflight, tables, now, env, jwtManager, users, issued, nextJti, last, retired>>

RunLogout ==
    /\ Current(req) = "Logout"
    /\ req' = CtxNext(Logout(Ran(req, "Logout")))
    /\ retired' = retired \cup { Split(req.authorization)[2] }
    /\ UNCHANGED <<inflight, tables, now, env, jwtManager, users, issued, nextJti, last>>

RunGetProfile ==
    /\ Current(req) = "GetProfile"
    /\ req' = CtxNext(GetProfile(Ran(req, "GetProfile"), users))
    /\ UNCHANGED <<inflight, tables, now, env, jwtManager, users, issued, nextJti, last, retired>>

RunRefresh ==
    /\ Current(req) = "Refresh"
    /\ LET r == RefreshToken(jwtManager, req.body.refreshToken, now, nextJti)
           fresh == req.body.json = "ok" /\ req.body.has /\ r.ok
       IN /\ fresh => nextJti <= MaxTokens
          /\ req' = CtxNext(Refresh(Ran(req, "Refresh"), r))
          /\ issued' = IF fresh THEN issued \cup {r.token} ELSE issued
          /\ nextJti' = IF fresh THEN nextJti + 1 ELSE nextJti
          /\ retired' = IF fresh THEN retired \cup {req.body.refreshToken} ELSE retired
    /\ UNCHANGED <<inflight, tables, now, env, jwtManager, users, last>>

(* The response leaves; the connection serves the next request *)
Respond ==
    /\ req.active /\ Current(req) = "none"
    /\ req' = NoRequest
    /\ UNCHANGED <<inflight, tables, now, env, jwtManager, users, issued, nextJti, last, retired>>

(* Registration and login.  Passwords of the bodies: two that pass the     *)
(* length rule of RegisterRequest and one that is too short for it         *)
OtherPassword == <<1, 2, 3, 4, 5, 7>>
ShortPassword == <<1, 2, 3>>
Salts == {1, 2}

RegisterBodies ==
    { [json |-> "bad", email |-> "", password |-> <<>>, confirmPassword |-> <<>>] }
    \cup { [json |-> "ok", email |-> e, password |-> pw[1], confirmPassword |-> pw[2]] :
             e \in Emails,
             pw \in { <<InitialPassword, InitialPassword>>,
                      <<InitialPassword, OtherPassword>>,
                      <<ShortPassword, ShortPassword>> } }

LoginBodies ==
    { [json |-> "bad", email |-> "", password |-> <<>>, confirmPassword |-> <<>>] }
    \cup { [json |-> "ok", email |-> e, password |-> pw, confirmPassword |-> <<>>] :
             e \in Emails, pw \in {InitialPassword, OtherPassword} }

NewAuthRequest ==
    /\ last.op = "none" /\ ~req.active
    /\ \/ \E b \in RegisterBodies :
            req' = [NoRequest EXCEPT !.active = TRUE, !.route = "POST /auth/register",
                                     !.at = now, !.body = b]
       \/ \E b \in LoginBodies :
            req' = [NoRequest EXCEPT !.active = TRUE, !.route = "POST /auth/login",
                                     !.at = now, !.body = b]
       \/ \E h \in Headers :
            req' = [NoRequest EXCEPT !.active = TRUE, !.route = "GET /auth/profile",
                                     !.at = now, !.authorization = h]
    /\ UNCHANGED <<inflight, tables, now, env, jwtManager, users, issued, nextJti, last, retired>>

RunRegister ==
    /\ Current(req) = "Register"
    /\ \E salt \in Salts, rejectLong \in BOOLEAN :
         LET r == Register(Ran(req, "Register"), jwtManager, users, now, salt,
                           rejectLong, nextJti)
         IN /\ r.tokens # <<>> => nextJti + 1 <= MaxTokens
            /\ req' = CtxNext(r.c)
            /\ users' = r.users
            /\ issued' = issued \cup { r.tokens[i] : i \in 1..Len(r.tokens) }
            /\ nextJti' = nextJti + Len(r.tokens)
    /\ UNCHANGED <<inflight, tables, now, env, jwtManager, last, retired>>

RunLogin ==
    /\ Current(req) = "Login"
    /\ LET r == Login(Ran(req, "Login"), jwtManager, users, now, nextJti)
       IN /\ r.tokens # <<>> => nextJti + 1 <= MaxTokens
          /\ req' = CtxNext(r.c)
          /\ issued' = issued \cup { r.tokens[i] : i \in 1..Len(r.tokens) }
          /\ nextJti' = nextJti + Len(r.tokens)
    /\ UNCHANGED <<inflight, tables, now, env, jwtManager, users, last, retired>>

(* The farm: two registered users, each with a session, a land and an     *)
(* animal, as an earlier run of the server left them                       *)
FarmUsers ==
    InitialUsers
    \cup { [id |-> "u2", email |-> "b@x",
            password |-> HashPassword(OtherPassword, 2, TRUE).hash,
            role |-> "farmer", avatar |-> "NULL"] }

InitialLands ==
    { [id |-> "l1", user_id |-> "u1", name |-> "north", area |-> 5, unit |-> "ha",
       status |-> "active", created_at |-> 0],
      [id |-> "l2", user_id |-> "u2", name |-> "east", area |-> 3, unit |-> "ha",
       status |-> "active", created_at |-> 0] }

InitialLivestock ==
    { [id |-> "a1", user_id |-> "u1", tag_number |-> "TR-1", type |-> "cattle",
       status |-> "healthy", created_at |-> 0],
      [id |-> "a2", user_id |-> "u2", tag_number |-> "TR-2", type |-> "sheep",
       status |-> "healthy", created_at |-> 0] }

InitFarm ==
    /\ now = MaxStart
    /\ env \in Environments
    /\ jwtManager = NewJWTManager(env)
    /\ users = FarmUsers
    /\ tables = [lands |-> InitialLands, livestock |-> InitialLivestock]
    /\ issued = { GenerateToken(jwtManager, "u1", "a@x", "farmer", now, 1),
                  GenerateToken(jwtManager, "u2", "b@x", "farmer", now, 2) }
    /\ nextJti = 3
    /\ last = NoCall
    /\ req = NoRequest
    /\ retired = {}
    /\ inflight = <<>>

LandBodies ==
    { [json |-> "bad", name |-> "", area |-> 0, unit |-> "", status |-> ""],
      [json |-> "ok", name |-> "south", area |-> 7, unit |-> "da", status |-> "fallow"],
      [json |-> "ok", name |-> "", area |-> 0, unit |-> "", status |-> ""] }

NoQuery == [page |-> Absent, limit |-> Absent, status |-> ""]

Queries ==
    { [page |-> p, limit |-> l, status |-> ""] :
        p \in {Absent, Num(1), Num(2), Junk},
        l \in {Absent, Num(1), Num(2), Num(MaxLimit), Num(MaxLimit + 1)} }
    \cup { [NoQuery EXCEPT !.status = "fallow"] }

FarmHeaders == { <<>> } \cup { Bearer(ts) : ts \in issued }

NewFarmRequest ==
    /\ last.op = "none" /\ ~req.active
    /\ \E h \in FarmHeaders :
         LET r == [NoRequest EXCEPT !.active = TRUE, !.at = now, !.authorization = h,
                                    !.query = NoQuery]
         IN \/ \E route \in {"GET /lands/:id", "DELETE /lands/:id"}, id \in LandIDs :
                 req' = [r EXCEPT !.route = route, !.param = id]
            \/ \E id \in LandIDs, b \in LandBodies :
                 req' = [r EXCEPT !.route = "PUT /lands/:id", !.param = id, !.body = b]
            \/ \E b \in LandBodies :
                 req' = [r EXCEPT !.route = "POST /lands", !.body = b]
            \/ \E q \in Queries :
                 req' = [r EXCEPT !.route = "GET /lands", !.query = q]
            \/ \E id \in AnimalIDs \cup {"a9"} :
                 req' = [r EXCEPT !.route = "GET /livestock/:id", !.param = id]
    /\ UNCHANGED <<inflight, tables, now, env, jwtManager, users, issued, nextJti, last, retired>>

RunGetLand ==
    /\ Current(req) = "GetLand"
    /\ LET r == GetLand(Ran(req, "GetLand"), tables)
       IN req' = CtxNext(r.c) /\ tables' = r.tables
    /\ UNCHANGED <<inflight, now, env, jwtManager, users, issued, nextJti, last, retired>>

RunUpdateLand ==
    /\ Current(req) = "UpdateLand"
    /\ LET r == UpdateLand(Ran(req, "UpdateLand"), tables)
       IN req' = CtxNext(r.c) /\ tables' = r.tables
    /\ UNCHANGED <<inflight, now, env, jwtManager, users, issued, nextJti, last, retired>>

RunDeleteLand ==
    /\ Current(req) = "DeleteLand"
    /\ LET r == DeleteLand(Ran(req, "DeleteLand"), tables)
       IN req' = CtxNext(r.c) /\ tables' = r.tables
    /\ UNCHANGED <<inflight, now, env, jwtManager, users, issued, nextJti, last, retired>>

RunCreateLand ==
    /\ Current(req) = "CreateLand"
    /\ \/ req.body.json # "ok"
       \/ \E id \in LandIDs : \A r \in tables.lands : r.id # id
    /\ LET r == CreateLand(Ran(req, "CreateLand"), tables, now)
       IN req' = CtxNext(r.c) /\ tables' = r.tables
    /\ UNCHANGED <<inflight, now, env, jwtManager, users, issued, nextJti, last, retired>>

(* The rows of a table the list handlers select for the caller *)
Selected(rows, c) ==
    IF CtxHas(c, "user_id") THEN Filtered(rows, CtxGet(c, "user_id"), StatusQuery(c))
    ELSE {}

RunGetLands ==
    /\ Current(req) = "GetLands"
    /\ \E order \in Orderings(Selected(tables.lands, req)) :
         LET r == GetLands(Ran(req, "GetLands"), tables, order)
         IN req' = CtxNext(r.c) /\ tables' = r.tables
    /\ UNCHANGED <<inflight, now, env, jwtManager, users, issued, nextJti, last, retired>>

RunGetLivestock ==
    /\ Current(req) = "GetLivestock"
    /\ \E order \in Orderings(Selected(tables.livestock, req)) :
         LET r == GetLivestock(Ran(req, "GetLivestock"), tables, order)
         IN req' = CtxNext(r.c) /\ tables' = r.tables
    /\ UNCHANGED <<inflight, now, env, jwtManager, users, issued, nextJti, last, retired>>

(* The JWTManager on its own *)
Next ==
    \/ Tick
    \/ Return
    \/ CallGenerateToken
    \/ CallValidateToken
    \/ CallRefreshToken

Spec == Init /\ [][Next]_vars

(* The server: tokens are handed out and requests are served *)
NextHttp ==
    \/ Tick
    \/ Return
    \/ CallGenerateToken
    \/ NewRequest
    \/ RunRequestID
    \/ RunAuth
    \/ RunLogout
    \/ RunGetProfile
    \/ RunRefresh
    \/ Respond

SpecHttp == Init /\ [][NextHttp]_vars

(* The server: users register, log in and use what they were given *)
NextAuth ==
    \/ Tick
    \/ NewAuthRequest
    \/ RunRequestID
    \/ RunRegister
    \/ RunLogin
    \/ RunAuth
    \/ RunGetProfile
    \/ Respond

SpecAuth == Init /\ [][NextAuth]_vars

(* The server: the users of the farm work on their lands and animals *)
NextFarm ==
    \/ NewFarmRequest
    \/ RunRequestID
    \/ RunAuth
    \/ RunGetLands
    \/ RunCreateLand
    \/ RunGetLand
    \/ RunUpdateLand
    \/ RunDeleteLand
    \/ RunGetLivestock
    \/ Respond

SpecFarm == InitFarm /\ [][NextFarm]_vars

---------------------------------------------------------------------------
(* Properties of the JWTManager, checked under Spec *)

ClaimsOf(tokenString) == tokenString[1].val.claims

(* The signature of the token string verifies under key *)
SignatureVerifies(tokenString, key) ==
    /\ WellFormed(tokenString)
    /\ LET token == tokenString[1].val
       IN token.alg \in HMACAlgs /\ token.sig = HMAC(key, token.alg, token.claims)

Validated == last.op = "ValidateToken"
Refreshed == last.op = "RefreshToken"

(* C1, as stated: ValidateToken accepts a token exactly when its signature *)
(* verifies under the validator's secret and the time of the call lies in  *)
(* the closed interval [nbf, exp] of its claims.                           *)
C1_ValidIffSignedAndInClosedInterval ==
    Validated =>
        ( last.ok <=> /\ SignatureVerifies(last.arg, jwtManager.secretKey)
                      /\ ClaimsOf(last.arg).nbf <= last.at
                      /\ last.at <= ClaimsOf(last.arg).exp )

(* C1, amended: ValidateToken accepts a token exactly when its signature   *)
(* verifies under the validator's secret and nbf <= time of the call < exp *)
(* (the instant exp itself is already rejected).                            *)
C1_ValidIffSignedAndBeforeExpiry ==
    Validated =>
        ( last.ok <=> /\ SignatureVerifies(last.arg, jwtManager.secretKey)
                      /\ ClaimsOf(last.arg).nbf <= last.at
                      /\ last.at < ClaimsOf(last.arg).exp )

(* A token with a verifying signature was accepted strictly inside its window *)
C1_Witness ==
    /\ Validated /\ last.ok
    /\ ClaimsOf(last.arg).nbf < last.at
    /\ last.at < ClaimsOf(last.arg).exp

(* C2: the token GenerateToken(userID, email, role) returns validates on   *)
(* the same manager at the time of issue, and the claims ValidateToken     *)
(* returns carry exactly userID, email and role, with subject = userID.    *)
C2_ValidateOfGenerate ==
    last.op = "GenerateToken" =>
        LET v == ValidateToken(jwtManager, last.token, last.at) IN
        /\ v.ok
        /\ v.claims.user_id = last.claims.user_id
        /\ v.claims.email = last.claims.email
        /\ v.claims.role = last.claims.role
        /\ v.claims.sub = last.claims.user_id

(* A token was generated for the admin identity in the middle of a second *)
C2_Witness ==
    /\ last.op = "GenerateToken"
    /\ last.claims.role = "admin"
    /\ last.at % TicksPerSecond # 0

(* C3: for an issued token ValidateToken succeeds one second before exp,   *)
(* fails at the instant exp and fails at every later time.                 *)
C3_RejectedFromExpiryOn ==
    (Validated /\ last.arg \in issued) =>
        /\ last.at = ClaimsOf(last.arg).exp - Second => last.ok
        /\ last.at >= ClaimsOf(last.arg).exp => ~last.ok

(* An issued token was presented at the very instant exp and rejected *)
C3_Witness ==
    /\ Validated /\ last.arg \in issued
    /\ last.at = ClaimsOf(last.arg).exp
    /\ ~last.ok

C5_RefreshedTokenIsFresh ==
    (Refreshed /\ last.ok) =>
        LET old == ClaimsOf(last.arg)
            new == ClaimsOf(last.token)
            v == ValidateToken(jwtManager, last.token, last.at)
        IN /\ v.ok
           /\ new.user_id = old.user_id /\ new.email = old.email /\ new.role = old.role
           /\ new.jti # old.jti
           /\ new.exp = NewNumericDate(last.at + jwtManager.tokenDuration)
           /\ new.exp <= last.at + jwtManager.tokenDuration
           /\ new.exp > last.at + jwtManager.tokenDuration - Second

(* A refresh succeeded before the last second of the old token, so that    *)
(* old expiry + duration and time of refresh + duration differ             *)
C5_Witness ==
    /\ Refreshed /\ last.ok
    /\ ClaimsOf(last.arg).exp - last.at >= Second
    /\ ClaimsOf(last.token).exp # ClaimsOf(last.arg).exp + jwtManager.tokenDuration

(* C7: ValidateToken rejects every token whose signature does not verify   *)
(* under the validator's secret: an issued token with its payload or its   *)
(* signature changed, and a well-formed token signed with another secret.  *)
C7_BadSignatureRejected ==
    (Validated /\ ~SignatureVerifies(last.arg, jwtManager.secretKey)) => ~last.ok

(* A copy of an issued token with a changed payload or signature, or a     *)
(* token re-signed with another secret, was presented inside its window    *)
C7_Witness ==
    /\ Validated /\ ~last.ok
    /\ WellFormed(last.arg)
    /\ \E ts \in issued :
          last.arg[1].val \in PayloadTampered(ts[1].val) \cup SignatureTampered(ts[1].val)
                              \cup Resigned(ts[1].val)
    /\ last.arg[1].val.alg \in HMACAlgs
    /\ ClaimsOf(last.arg).nbf <= last.at
    /\ last.at < ClaimsOf(last.arg).exp

---------------------------------------------------------------------------
(* Properties of the server, checked under SpecHttp *)

(* The Authorization header has the shape "Bearer <token>": the word       *)
(* Bearer, one space, and a rest without a space                           *)
BearerShape(h) ==
    /\ Len(h) >= 2
    /\ h[1] = Word("Bearer") /\ h[2] = Space
    /\ \A i \in 3..Len(h) : h[i] # Space

(* The token string of a header of that shape *)
BearerToken(h) == SubSeq(h, 3, Len(h))

AuthRan == req.active /\ "Auth" \in req.ran
Downstream == {"Logout", "GetProfile"}

(* Auth, run at time t on header h, has a reason to refuse *)
AuthFails(h, t) ==
    \/ h = <<>>
    \/ ~BearerShape(h)
    \/ ~ValidateToken(NewJWTManager(env), BearerToken(h), t).ok

InWindow(tokenString, t) ==
    ClaimsOf(tokenString).nbf <= t /\ t < ClaimsOf(tokenString).exp

(* C6: a token that was refreshed successfully, or with which a Logout was *)
(* performed, is still accepted by ValidateToken and by the Auth           *)
(* middleware at every time before its own exp.                            *)
C6_RetiredTokenStaysValid ==
    /\ \A ts \in retired :
          InWindow(ts, now) =>
              /\ ValidateToken(jwtManager, ts, now).ok
              /\ ~Auth([NoRequest EXCEPT !.authorization = Bearer(ts)], env, now).aborted
    /\ (AuthRan /\ BearerShape(req.authorization)
          /\ BearerToken(req.authorization) \in retired
          /\ InWindow(BearerToken(req.authorization), req.authAt)) => ~req.aborted

(* A request carrying a token that had been retired before passed Auth *)
C6_Witness ==
    /\ req.active /\ req.ran = {"RequestID", "Auth"} /\ ~req.aborted
    /\ BearerToken(req.authorization) \in retired

(* C8: on a route behind Auth, a request whose Authorization header is     *)
(* absent, is not of the shape "Bearer <token>" or carries a token that    *)
(* ValidateToken rejects is answered 401, and its downstream handler never *)
(* runs and makes no datastore access; no downstream handler runs before   *)
(* Auth has run.                                                            *)
C8_AuthFailureStopsRequest ==
    /\ (AuthRan /\ AuthFails(req.authorization, req.authAt)) =>
          /\ Len(req.written) = 1 /\ req.written[1].status = StatusUnauthorized
          /\ req.ran \cap Downstream = {}
          /\ req.dbOps = 0
    /\ (req.active /\ BehindAuth(req.route) /\ req.ran \cap Downstream # {}) =>
          "Auth" \in req.ran

(* A request for the profile with a rejected token ended at Auth *)
C8_Witness ==
    /\ AuthRan /\ req.route = "GET /auth/profile"
    /\ BearerShape(req.authorization)
    /\ ~ValidateToken(NewJWTManager(env), BearerToken(req.authorization), req.authAt).ok
    /\ Current(req) = "none"

(* C9: when a handler behind Auth has run, the context holds user_id,      *)
(* user_email and user_role, equal to the UserID, Email and Role claims of *)
(* the token validated for the request, and GetUserID succeeds.            *)
C9_HandlerSeesFullIdentity ==
    (req.active /\ req.ran \cap Downstream # {}) =>
        LET claims == ClaimsOf(BearerToken(req.authorization)) IN
        /\ <<"user_id", claims.user_id>> \in req.keys
        /\ <<"user_email", claims.email>> \in req.keys
        /\ <<"user_role", claims.role>> \in req.keys
        /\ Cardinality({ p \in req.keys : p[1] \in {"user_id", "user_email", "user_role"} }) = 3
        /\ GetUserID(req).ok /\ GetUserID(req).userID = claims.user_id

(* GetProfile ran for a request of the admin identity *)
C9_Witness ==
    /\ req.active /\ "GetProfile" \in req.ran
    /\ <<"user_role", "admin">> \in req.keys

(* C10: a request Auth refuses is answered once, with status 401,          *)
(* success = false and one error code: MISSING_TOKEN when the header is    *)
(* absent or empty, otherwise INVALID_TOKEN_FORMAT when the header is not  *)
(* two space-separated parts of which the first is "Bearer", otherwise     *)
(* INVALID_TOKEN.                                                           *)
C10_AuthErrorCode ==
    (AuthRan /\ req.aborted) =>
        /\ Len(req.written) = 1
        /\ req.written[1].status = StatusUnauthorized
        /\ req.written[1].body.success = FALSE
        /\ req.written[1].body.error.code =
              ( IF req.authorization = <<>> THEN "MISSING_TOKEN"
                ELSE IF ~BearerShape(req.authorization) THEN "INVALID_TOKEN_FORMAT"
                ELSE "INVALID_TOKEN" )

(* "Bearer garbage" was answered INVALID_TOKEN *)
C10_Witness ==
    /\ AuthRan /\ req.aborted
    /\ req.authorization = Bearer(<<Word("garbage")>>)
    /\ req.written[1].body.error.code = "INVALID_TOKEN"

---------------------------------------------------------------------------
(* Properties of registration, checked under SpecAuth *)

(* The request Register is about to serve is a registration that must     *)
(* succeed: a body that binds, matching passwords, an email no row has     *)
RegistrationServed ==
    /\ Current(req) = "Register" /\ "Register" \in req'.ran
    /\ BindRegister(req.body)
    /\ req.body.password = req.body.confirmPassword
    /\ \A r \in users : r.email # req.body.email

(* What middleware.Auth makes of a request that carries the token *)
Presenting(tokenString, t) ==
    Auth([NoRequest EXCEPT !.active = TRUE, !.route = "GET /auth/profile", !.at = t,
                           !.authorization = Bearer(tokenString)], env, t)

RegistrationAnswers(status) ==
    RegistrationServed =>
        LET w == req'.written[Len(req'.written)] IN
        /\ w.status = status
        /\ w.body.success
        /\ \E u \in users' \ users :
             /\ u.email = req.body.email
             /\ LET c == Presenting(w.body.data.token, now') IN
                ~c.aborted /\ CtxHas(c, "user_id") /\ CtxGet(c, "user_id") = u.id

(* C11: a successful registration answers 201 with a token, and            *)
(* middleware.Auth accepts that token and resolves it to the id of the     *)
(* user the registration created                                           *)
C11_RegisterAnswers201 == [][RegistrationAnswers(StatusCreated)]_vars

(* What Register does answer: the same, with status 200 *)
C11_RegisterAnswers200 == [][RegistrationAnswers(StatusOK)]_vars

(* A registered user's token has passed middleware.Auth on a request and   *)
(* was resolved to the row the registration added                          *)
C11_Witness ==
    /\ AuthRan /\ ~req.aborted
    /\ BearerToken(req.authorization) \in issued
    /\ \E u \in users \ InitialUsers : CtxGet(req, "user_id") = u.id

---------------------------------------------------------------------------
(* Properties of the signing secret, checked under SpecHttp *)

(* C12: the secret middleware.Auth validates with is the one the auth      *)
(* handler's JWTManager was given at startup and has signed every issued   *)
(* token with, so Auth accepts an issued token at every time before its    *)
(* expiry                                                                  *)
C12_IssuedAcceptedBeforeExpiry ==
    /\ jwtManager = NewJWTManager(env)
    /\ \A ts \in issued :
          /\ ts[1].val.sig.key = NewJWTManager(env).secretKey
          /\ InWindow(ts, now) =>
               LET c == Presenting(ts, now) IN
               ~c.aborted /\ CtxGet(c, "user_id") = ClaimsOf(ts).user_id
    /\ (AuthRan /\ BearerShape(req.authorization)
          /\ BearerToken(req.authorization) \in issued
          /\ req.authAt < ClaimsOf(BearerToken(req.authorization)).exp) =>
          /\ ~req.aborted
          /\ \A i \in 1..Len(req.written) : req.written[i].status # StatusUnauthorized
          /\ CtxGet(req, "user_id") = ClaimsOf(BearerToken(req.authorization)).user_id

(* A token that a refresh issued, under a configured secret, passed Auth   *)
(* later than the second it was issued in                                  *)
C12_Witness ==
    /\ req.active /\ req.ran = {"RequestID", "Auth"} /\ ~req.aborted
    /\ jwtManager.secretKey # DefaultSecretKey
    /\ BearerToken(req.authorization) \in issued
    /\ ClaimsOf(BearerToken(req.authorization)).jti > 1
    /\ retired # {}
    /\ req.authAt > ClaimsOf(BearerToken(req.authorization)).iat

---------------------------------------------------------------------------
(* Properties of rejected tokens, checked under SpecHttp *)

Rejected(tokenString, t) == ~ValidateToken(jwtManager, tokenString, t).ok

(* What AuthHandler.Refresh answers to a body that carries the token *)
RefreshAnswer(tokenString, t) ==
    LET c == RequestID([NoRequest EXCEPT
                          !.active = TRUE, !.route = "POST /auth/refresh", !.at = t,
                          !.body = [json |-> "ok", has |-> TRUE,
                                    refreshToken |-> tokenString]])
    IN Refresh(c, RefreshToken(jwtManager, tokenString, t, nextJti)).written

(* middleware.Auth answers every rejected token alike *)
C13_SameAtAuth ==
    \A ts \in Presentable :
        Rejected(ts, now) =>
            Presenting(ts, now).written =
                <<[status |-> StatusUnauthorized,
                   body |-> AuthError("INVALID_TOKEN", "Gecersiz veya suresi dolmus token")]>>

(* Refresh answers every rejected token with the same status, code and    *)
(* message                                                                 *)
C13_SameAtRefreshButDetails ==
    \A ts \in Presentable :
        Rejected(ts, now) =>
            LET w == RefreshAnswer(ts, now) IN
            /\ Len(w) = 1 /\ w[1].status = StatusUnauthorized
            /\ w[1].body.error.code = "INVALID_TOKEN"
            /\ w[1].body.error.message = "Gecersiz refresh token"

(* C13: whatever made ValidateToken reject a token (expired, not yet       *)
(* valid, bad signature, algorithm that is not HMAC, malformed), the       *)
(* caller gets the same status, code, message and details, from            *)
(* middleware.Auth and from POST /auth/refresh                             *)
C13_RejectionCauseHidden ==
    /\ C13_SameAtAuth
    /\ (req.active /\ "Refresh" \in req.ran /\ req.body.json = "ok" /\ req.body.has
          /\ Rejected(req.body.refreshToken, now)) =>
          \A ts \in Presentable :
              Rejected(ts, now) => RefreshAnswer(ts, now) = req.written

(* Refresh has answered a request whose token had expired, and a token    *)
(* rejected for another reason could have been sent instead                *)
C13_Witness ==
    /\ req.active /\ "Refresh" \in req.ran /\ req.body.json = "ok" /\ req.body.has
    /\ req.body.refreshToken \in issued
    /\ Rejected(req.body.refreshToken, now)
    /\ \E ts \in Presentable :
          ValidateToken(jwtManager, ts, now).err \notin {"", "token is expired"}

---------------------------------------------------------------------------
(* Properties of the lifetime of a token and of its refresh, checked under *)
(* Spec                                                                    *)

Valid(tokenString, t) == ValidateToken(jwtManager, tokenString, t).ok
Expired(tokenString, t) == t >= ClaimsOf(tokenString).exp

(* C14, as stated: an issued token is Valid and then Expired, and a        *)
(* RefreshToken of an issued token whose exp has passed succeeds while no  *)
(* more than the refresh window has gone by since exp                      *)
C14_ExpiredCanBeReissued ==
    /\ \A ts \in issued : Valid(ts, now) # Expired(ts, now)
    /\ (Refreshed /\ last.arg \in issued
          /\ Expired(last.arg, last.at)
          /\ last.at - ClaimsOf(last.arg).exp <= RefreshThreshold) => last.ok

(* C14, amended: an issued token is Valid from its issue on and Expired    *)
(* from exp on, never both and never Valid again after Expired; Expired is *)
(* final: RefreshToken of an Expired token fails with the validation       *)
(* error and issues nothing, a token is reissued only while it is Valid    *)
LifetimeStep ==
    /\ \A ts \in issued' :
          /\ Valid(ts, now') # Expired(ts, now')
          /\ (ts \in issued /\ Expired(ts, now)) => Expired(ts, now')
    /\ (last.op = "none" /\ last'.op = "RefreshToken" /\ last'.arg \in issued) =>
          /\ Expired(last'.arg, now) =>
                /\ ~last'.ok /\ last'.err = "token is expired" /\ last'.token = <<>>
                /\ issued' = issued
          /\ last'.ok => Valid(last'.arg, now)

C14_ExpiredIsFinal == [][LifetimeStep]_vars

(* RefreshToken was called on an issued token within fifteen minutes after *)
(* its exp and failed                                                       *)
C14_Witness ==
    /\ Refreshed /\ last.arg \in issued
    /\ Expired(last.arg, last.at)
    /\ last.at - ClaimsOf(last.arg).exp <= RefreshThreshold
    /\ ~last.ok /\ last.err = "token is expired"

(* C15: RefreshToken validates the token it is given first: when           *)
(* ValidateToken rejects it (expired, not yet valid, altered, signed with  *)
(* another secret, malformed) RefreshToken returns that error and no       *)
(* token, and no token is issued                                           *)
RefreshOfRejectedStep ==
    (last.op = "none" /\ last'.op = "RefreshToken" /\ ~Valid(last'.arg, now)) =>
        /\ ~last'.ok /\ last'.token = <<>>
        /\ last'.err = ValidateToken(jwtManager, last'.arg, now).err
        /\ issued' = issued /\ nextJti' = nextJti

C15_RejectedTokenNotRefreshed == [][RefreshOfRejectedStep]_vars

(* RefreshToken has refused an altered token that was close enough to its *)
(* exp to be refreshed had it been genuine                                 *)
C15_Witness ==
    /\ Refreshed /\ ~last.ok /\ last.err = "signature is invalid"
    /\ last.arg \notin issued
    /\ ClaimsOf(last.arg).exp - last.at <= RefreshThreshold
    /\ last.at < ClaimsOf(last.arg).exp

---------------------------------------------------------------------------
(* Properties of the resource handlers, checked under SpecFarm *)

FarmHandlers ==
    {"GetLands", "CreateLand", "GetLand", "UpdateLand", "DeleteLand", "GetLivestock"}

(* The last response written for the request, and the rows it carries *)
Answer(c) == c.written[Len(c.written)]

Returned(c, handler) ==
    LET w == Answer(c) IN
    IF ~w.body.success THEN {}
    ELSE IF handler \in {"GetLand", "UpdateLand", "CreateLand"} THEN {w.body.data}
    ELSE IF handler \in {"GetLands", "GetLivestock"}
    THEN { w.body.data.rows[i] : i \in 1..Len(w.body.data.rows) }
    ELSE {}

OfOthers(rows, userID) == { r \in rows : r.user_id # userID }

(* What every step of a resource handler does for the user A it runs for: *)
(* the rows of other users stay as they were, every row returned is a row  *)
(* of A, and a get, update or delete by the id of a land of another user   *)
(* is answered as foreign(request, answer) says                            *)
ForeignAnswered404(c, w) == w.status = StatusNotFound /\ ~w.body.success

ForeignAnswered404OrBadBody(c, w) ==
    \/ ForeignAnswered404(c, w)
    \/ /\ Current(c) = "UpdateLand" /\ c.body.json # "ok"
       /\ w.status = StatusBadRequest /\ ~w.body.success
       /\ w.body.error.code = "INVALID_REQUEST"

IsolationStep(foreign(_, _)) ==
    Current(req) \in FarmHandlers =>
        LET handler == Current(req)
            a == CtxGet(req, "user_id")
        IN /\ OfOthers(tables'.lands, a) = OfOthers(tables.lands, a)
           /\ OfOthers(tables'.livestock, a) = OfOthers(tables.livestock, a)
           /\ \A r \in Returned(req', handler) : r.user_id = a
           /\ (/\ handler \in {"GetLand", "UpdateLand", "DeleteLand"}
               /\ \E r \in OfOthers(tables.lands, a) : r.id = req.param) =>
                 foreign(req, Answer(req'))

(* C16 as stated: a request authenticated as one user returns no row of    *)
(* another user and leaves the rows of other users as they were, and to    *)
(* get, update or delete a land by the id of a land of another user is     *)
(* always answered 404                                                     *)
C16_ForeignRowAlways404 == [][IsolationStep(ForeignAnswered404)]_vars

(* C16, amended: the same, but an update whose body does not bind is       *)
(* answered 400 INVALID_REQUEST before any row is looked up; every other   *)
(* get, update or delete by the id of a land of another user is answered   *)
(* 404                                                                     *)
C16_OwnRowsOnly == [][IsolationStep(ForeignAnswered404OrBadBody)]_vars

(* A user asked to delete, and another to update, the land of the other   *)
(* one: 404, and the land is as it was                                     *)
C16_Witness ==
    /\ req.active /\ req.ran \cap {"DeleteLand", "UpdateLand"} # {}
    /\ \E r \in InitialLands \cap tables.lands :
          r.id = req.param /\ r.user_id # CtxGet(req, "user_id")
    /\ Answer(req).status = StatusNotFound

---------------------------------------------------------------------------
(* HashPassword and CheckPassword on their own.  A password is hashed and  *)
(* the result kept as the stored text; then a password is checked against  *)
(* the stored text, or against a text that no HashPassword produced.       *)

MaxByte == 2
MaxShortLen == 2
MaxOver == 1

Bytes == 0..MaxByte

ByteSeqs(n) == UNION { [1..k -> Bytes] : k \in 0..n }

Ones(n) == [i \in 1..n |-> 1]

(* Short passwords of every content, and passwords around the 72 bytes of  *)
(* the bcrypt key                                                          *)
Plaintexts ==
    ByteSeqs(MaxShortLen) \cup {Ones(MaxPasswordBytes - 1)}
        \cup { Ones(MaxPasswordBytes) \o s : s \in ByteSeqs(MaxOver) }

(* Stored texts that are no bcrypt hash: the empty string and a password   *)
(* kept as it is                                                           *)
Malformed == {NoHash, [NoHash EXCEPT !.key = <<1, 2>>]}

NoCheck == [op |-> "none", rejectLong |-> FALSE, password |-> <<>>, ok |-> FALSE,
            hashed |-> FALSE, of |-> <<>>, stored |-> NoHash]

InitUtil ==
    /\ now = 0
    /\ env \in Environments
    /\ jwtManager = NewJWTManager(env)
    /\ users = InitialUsers
    /\ tables = InitialTables
    /\ issued = {}
    /\ nextJti = 1
    /\ last \in { [NoCheck EXCEPT !.rejectLong = b] : b \in BOOLEAN }
    /\ req = NoRequest
    /\ retired = {}
    /\ inflight = <<>>

CallHashPassword ==
    /\ last.op = "none"
    /\ \E password \in Plaintexts, salt \in Salts :
         LET h == HashPassword(password, salt, last.rejectLong) IN
         last' = [last EXCEPT !.op = "HashPassword", !.password = password,
                              !.ok = h.ok, !.hashed = TRUE, !.stored = h.hash]
    /\ UNCHANGED <<inflight, tables, now, env, jwtManager, users, issued, nextJti, req, retired>>

CallCheckPassword ==
    /\ last.op = "HashPassword"
    /\ \E password \in Plaintexts :
         last' = [last EXCEPT !.op = "CheckPassword", !.password = password,
                              !.of = last.password,
                              !.ok = CheckPassword(password, last.stored)]
    /\ UNCHANGED <<inflight, tables, now, env, jwtManager, users, issued, nextJti, req, retired>>

CallCheckPasswordMalformed ==
    /\ last.op = "none"
    /\ \E password \in Plaintexts, hash \in Malformed :
         last' = [last EXCEPT !.op = "CheckPassword", !.password = password,
                              !.stored = hash,
                              !.ok = CheckPassword(password, hash)]
    /\ UNCHANGED <<inflight, tables, now, env, jwtManager, users, issued, nextJti, req, retired>>

ReturnUtil ==
    /\ last.op = "CheckPassword"
    /\ last' = [NoCheck EXCEPT !.rejectLong = last.rejectLong]
    /\ UNCHANGED <<inflight, tables, now, env, jwtManager, users, issued, nextJti, req, retired>>

NextUtil ==
    \/ CallHashPassword
    \/ CallCheckPassword
    \/ CallCheckPasswordMalformed
    \/ ReturnUtil

SpecUtil == InitUtil /\ [][NextUtil]_vars

(* C17 as stated: CheckPassword against the hash of a password is true     *)
(* for that password, whatever it is, and false for every other password;  *)
(* against a stored text that is no hash it is false                       *)
C17_VerifiesExactlyThePlaintext ==
    last.op = "CheckPassword" =>
        IF last.hashed THEN last.ok <=> (last.password = last.of) ELSE ~last.ok

NoNul(password) == \A i \in 1..Len(password) : password[i] # 0

Plain(password) == Len(password) <= MaxPasswordBytes /\ NoNul(password)

(* C17, amended: HashPassword succeeds for every password of at most 72    *)
(* bytes, and for a longer one exactly when the bcrypt of the build still  *)
(* truncates; CheckPassword against the hash of a password is true for     *)
(* that password whenever the hash was made, and false for every other     *)
(* password when both have at most 72 bytes and no NUL byte; against a     *)
(* stored text that is no bcrypt hash, the empty text of a failed          *)
(* HashPassword among them, it is false                                    *)
C17_VerifiesPlainPasswords ==
    /\ last.op = "HashPassword" =>
         (last.ok <=> ~(last.rejectLong /\ Len(last.password) > MaxPasswordBytes))
    /\ last.op = "CheckPassword" =>
         /\ (last.hashed /\ last.stored.kind = "bcrypt" /\ last.password = last.of)
               => last.ok
         /\ (last.hashed /\ last.password # last.of
               /\ Plain(last.password) /\ Plain(last.of)) => ~last.ok
         /\ last.stored.kind # "bcrypt" => ~last.ok

(* A password of 72 bytes was hashed and then accepted *)
C17_Witness ==
    /\ last.op = "CheckPassword" /\ last.hashed /\ last.ok
    /\ last.password = last.of
    /\ Len(last.password) = MaxPasswordBytes

---------------------------------------------------------------------------
(* Pagination of the list endpoints, checked under SpecFarm *)

(* The least number of pages of limit rows that hold total rows *)
Ceil(total, limit) == CHOOSE k \in 0..total : k * limit >= total /\ (k - 1) * limit < total

AtLeastOne(n) == IF n < 1 THEN 1 ELSE n

(* A list was served for a request that asks for a page >= 1 with a limit  *)
(* in 1..100                                                               *)
ListServed ==
    /\ req.active /\ req.ran \cap {"GetLands", "GetLivestock"} # {}
    /\ req.written # <<>> /\ Answer(req).body.success
    /\ req.query.page.num /\ req.query.page.val >= 1
    /\ req.query.limit.num /\ req.query.limit.val \in 1..MaxLimit

Listed == Selected(IF "GetLands" \in req.ran THEN tables.lands ELSE tables.livestock, req)

(* The rows of the answer are the rows from offset on, limit at most, of   *)
(* the caller's rows in an order the query allows, and the pagination      *)
(* reports pages(total, limit) pages                                       *)
Paginated(pages(_, _)) ==
    ListServed =>
        LET page == req.query.page.val
            limit == req.query.limit.val
            total == Cardinality(Listed)
            offset == (page - 1) * limit
            data == Answer(req).body.data
        IN /\ data.pagination = [page |-> page, limit |-> limit, total |-> total,
                                 totalPages |-> pages(total, limit)]
           /\ \E order \in Orderings(Listed) :
                 /\ Len(data.rows) = IF total - offset > limit THEN limit
                                     ELSE IF total > offset THEN total - offset ELSE 0
                 /\ \A i \in 1..Len(data.rows) : data.rows[i] = order[offset + i]

(* C18 as stated: for every page >= 1, limit in 1..100 and total >= 0 a    *)
(* list endpoint answers with the rows from offset (page-1)*limit on and   *)
(* reports totalPages = ceil(total/limit), also for total = 0              *)
C18_TotalPagesIsCeil == Paginated(Ceil)

FlooredCeil(total, limit) == AtLeastOne(Ceil(total, limit))

(* C18, amended: the same, but totalPages is ceil(total/limit) and never   *)
(* less than 1: an empty list is reported as one page                      *)
C18_TotalPagesAtLeastOne == Paginated(FlooredCeil)

(* An empty list was served for an explicit page and limit *)
C18_Witness ==
    /\ ListServed
    /\ Listed = {}
    /\ Answer(req).body.data.pagination.totalPages = 1

---------------------------------------------------------------------------
(* The envelope of the answers of the resource endpoints, under SpecFarm *)

(* The uniform envelope: success with data or failure with an error code,  *)
(* and a meta object with the time of the answer, the version and the      *)
(* request id the RequestID middleware gave the request                    *)
Enveloped(c, w) ==
    /\ w.body.success <=> w.body.error = NoError
    /\ w.body.meta.version = "1.0"
    /\ w.body.meta.requestId = CtxGet(c, "request_id")
    /\ w.body.meta.timestamp = RFC3339(c.at)

(* C19: every answer a resource handler writes, the 201 of a create        *)
(* included, has the uniform envelope with its meta object                 *)
C19_EveryAnswerEnveloped ==
    (req.active /\ req.ran \cap FarmHandlers # {}) =>
        \A i \in 1..Len(req.written) : Enveloped(req, req.written[i])

(* A land was created and the 201 carries no meta object *)
C19_Witness ==
    /\ req.active /\ "CreateLand" \in req.ran
    /\ req.written # <<>>
    /\ Answer(req).status = StatusCreated /\ Answer(req).body.success
    /\ Answer(req).body.meta = NoMeta
    /\ \E r \in tables.lands : r = Answer(req).body.data

(* Every answer of a resource handler other than the 201 of a create has   *)
(* the envelope                                                            *)
C19_EnvelopedButCreated ==
    (req.active /\ req.ran \cap FarmHandlers # {}) =>
        \A i \in 1..Len(req.written) :
            req.written[i].status # StatusCreated => Enveloped(req, req.written[i])

---------------------------------------------------------------------------
(* GET /livestock/:id, under SpecFarm *)

(* The route was served for an authenticated caller *)
AnimalServed ==
    /\ req.active /\ req.route = "GET /livestock/:id"
    /\ CtxHas(req, "user_id")
    /\ Current(req) = "none" /\ req.written # <<>>

MyAnimals ==
    { r \in tables.livestock : r.id = req.param /\ r.user_id = CtxGet(req, "user_id") }

(* C20: GET /livestock/:id with a valid token answers 200 with the one     *)
(* animal of the caller that has the id, and 404 when the caller has no    *)
(* animal with the id                                                      *)
C20_SingleAnimalOr404 ==
    AnimalServed =>
        IF MyAnimals = {}
        THEN Answer(req).status = StatusNotFound /\ ~Answer(req).body.success
        ELSE /\ Answer(req).status = StatusOK
             /\ Answer(req).body = Answer(GetLivestockByID(req, tables).c).body

(* The id of no animal of the caller was asked for and the answer is 200   *)
(* with the list of the caller's animals                                   *)
C20_Witness ==
    /\ AnimalServed /\ MyAnimals = {}
    /\ "GetLivestock" \in req.ran
    /\ Answer(req).status = StatusOK
    /\ Answer(req).body.data.pagination.total = 1

---------------------------------------------------------------------------
(* CalendarHandler.  The events table is tables.events; a row has the id,  *)
(* the owner and the status of an event.  The body of a status request:    *)
(* json tells whether it binds, status is the status asked for.            *)

EventIDs == {"e1", "e2", "e9"}

DeleteEvent(c, tbl) ==
    LET u == GetUserID(c) IN
    IF ~u.ok THEN Served(Unauthorized(c), tbl)
    ELSE LET eventID == c.param IN
    IF IsEmptyString(eventID)
    THEN Served(ErrorResponse(c, StatusBadRequest, "MISSING_ID", "Etkinlik ID gerekli", ""), tbl)
    ELSE LET q == [c EXCEPT !.dbOps = @ + 1]
             rows == { r \in tbl.events : r.id = eventID /\ r.user_id = u.userID }
         IN IF rows = {}
            THEN Served(ErrorResponse(q, StatusNotFound, "EVENT_NOT_FOUND",
                                      "Etkinlik bulunamadi", ""), tbl)
            ELSE Served(SuccessResponse(q, <<>>, "Etkinlik basariyla silindi"),
                        [tbl EXCEPT !.events = @ \ rows])

(* The UPDATE changes the rows with the id and the owner, none when there  *)
(* is no such row; its count of rows is not looked at                      *)
UpdateEventStatus(c, tbl) ==
    LET u == GetUserID(c) IN
    IF ~u.ok THEN Served(Unauthorized(c), tbl)
    ELSE LET eventID == c.param IN
    IF IsEmptyString(eventID)
    THEN Served(ErrorResponse(c, StatusBadRequest, "MISSING_ID", "Etkinlik ID gerekli", ""), tbl)
    ELSE IF c.body.json # "ok"
    THEN Served(ErrorResponse(c, StatusBadRequest, "INVALID_REQUEST",
                              "Gecersiz istek formati", "bind error"), tbl)
    ELSE LET updated ==
               { IF r.id = eventID /\ r.user_id = u.userID
                 THEN [r EXCEPT !.status = c.body.status] ELSE r : r \in tbl.events }
         IN Served(SuccessResponse([c EXCEPT !.dbOps = @ + 1], <<>>,
                                   "Etkinlik durumu basariyla guncellendi"),
                   [tbl EXCEPT !.events = updated])

InitialEvents ==
    { [id |-> "e1", user_id |-> "u1", status |-> "pending"],
      [id |-> "e2", user_id |-> "u2", status |-> "pending"] }

InitCalendar ==
    /\ now = MaxStart
    /\ env \in Environments
    /\ jwtManager = NewJWTManager(env)
    /\ users = FarmUsers
    /\ tables = [lands |-> {}, livestock |-> {}, events |-> InitialEvents]
    /\ issued = { GenerateToken(jwtManager, "u1", "a@x", "farmer", now, 1),
                  GenerateToken(jwtManager, "u2", "b@x", "farmer", now, 2) }
    /\ nextJti = 3
    /\ last = NoCall
    /\ req = NoRequest
    /\ retired = {}
    /\ inflight = <<>>

StatusBodies ==
    { [json |-> "bad", status |-> ""],
      [json |-> "ok", status |-> "completed"],
      [json |-> "ok", status |-> "cancelled"],
      [json |-> "ok", status |-> ""] }

NewCalendarRequest ==
    /\ last.op = "none" /\ ~req.active
    /\ \E h \in FarmHeaders, id \in EventIDs :
         LET r == [NoRequest EXCEPT !.active = TRUE, !.at = now, !.authorization = h,
                                    !.param = id]
         IN \/ req' = [r EXCEPT !.route = "DELETE /calendar/events/:id"]
            \/ \E b \in StatusBodies :
                 req' = [r EXCEPT !.route = "PATCH /calendar/events/:id/status", !.body = b]
    /\ UNCHANGED <<inflight, tables, now, env, jwtManager, users, issued, nextJti, last, retired>>

RunDeleteEvent ==
    /\ Current(req) = "DeleteEvent"
    /\ LET r == DeleteEvent(Ran(req, "DeleteEvent"), tables)
       IN req' = CtxNext(r.c) /\ tables' = r.tables
    /\ UNCHANGED <<inflight, now, env, jwtManager, users, issued, nextJti, last, retired>>

RunUpdateEventStatus ==
    /\ Current(req) = "UpdateEventStatus"
    /\ LET r == UpdateEventStatus(Ran(req, "UpdateEventStatus"), tables)
       IN req' = CtxNext(r.c) /\ tables' = r.tables
    /\ UNCHANGED <<inflight, now, env, jwtManager, users, issued, nextJti, last, retired>>

NextCalendar ==
    \/ NewCalendarRequest
    \/ RunRequestID
    \/ RunAuth
    \/ RunDeleteEvent
    \/ RunUpdateEventStatus
    \/ Respond

SpecCalendar == InitCalendar /\ [][NextCalendar]_vars

(* The caller's events with the id of the request *)
MyEvents(c, tbl) ==
    { r \in tbl.events : r.id = c.param /\ r.user_id = CtxGet(c, "user_id") }

(* C21: a status request by the id of no event of the caller is answered   *)
(* 404 and changes no event; the answer is 200 only when an event of the   *)
(* caller was updated                                                      *)
StatusStep ==
    (Current(req) = "UpdateEventStatus" /\ req.body.json = "ok") =>
        /\ MyEvents(req, tables) = {} =>
              /\ Answer(req').status = StatusNotFound
              /\ tables'.events = tables.events
        /\ Answer(req').status = StatusOK =>
              \E r \in MyEvents(req, tables) :
                  [r EXCEPT !.status = req.body.status] \in tables'.events

C21_UnknownEventAnswered404 == [][StatusStep]_vars

(* A user asked for a new status of the event of another user: the answer  *)
(* is 200 and the event is as it was                                       *)
C21_Witness ==
    /\ req.active /\ "UpdateEventStatus" \in req.ran
    /\ req.written # <<>> /\ Answer(req).status = StatusOK
    /\ MyEvents(req, tables) = {}
    /\ \E r \in InitialEvents \cap tables.events : r.id = req.param

(* What the handler does keep: a status request changes no event but the   *)
(* caller's event with the id                                              *)
StatusFrameStep ==
    Current(req) = "UpdateEventStatus" =>
        \A r \in tables.events :
            (r.id # req.param \/ r.user_id # CtxGet(req, "user_id")) => r \in tables'.events

C21_OtherEventsUnchanged == [][StatusFrameStep]_vars

---------------------------------------------------------------------------
(* Roles.  One user holds two tokens that differ in the role (and the      *)
(* token id) only, and sends requests to the protected routes with either. *)
(* A land is asked for only while an id of LandIDs is free.                *)

InitRoles ==
    /\ now = MaxStart
    /\ env \in Environments
    /\ jwtManager = NewJWTManager(env)
    /\ users = FarmUsers
    /\ tables = [lands |-> InitialLands, livestock |-> InitialLivestock]
    /\ issued = { GenerateToken(jwtManager, "u1", "a@x", "farmer", now, 1),
                  GenerateToken(jwtManager, "u1", "a@x", "admin", now, 2) }
    /\ nextJti = 3
    /\ last = NoCall
    /\ req = NoRequest
    /\ retired = {}
    /\ inflight = <<>>

NewRoleRequest ==
    /\ last.op = "none" /\ ~req.active
    /\ \E ts \in issued :
         LET r == [NoRequest EXCEPT !.active = TRUE, !.at = now,
                                    !.authorization = Bearer(ts), !.query = NoQuery]
         IN \/ \E route \in {"GET /lands/:id", "DELETE /lands/:id"}, id \in LandIDs :
                 req' = [r EXCEPT !.route = route, !.param = id]
            \/ \E id \in LandIDs, b \in LandBodies :
                 req' = [r EXCEPT !.route = "PUT /lands/:id", !.param = id, !.body = b]
            \/ \E b \in LandBodies :
                 /\ \E id \in LandIDs : \A l \in tables.lands : l.id # id
                 /\ req' = [r EXCEPT !.route = "POST /lands", !.body = b]
            \/ \E route \in {"GET /lands", "GET /livestock", "GET /auth/profile",
                             "POST /auth/logout"} :
                 req' = [r EXCEPT !.route = route]
    /\ UNCHANGED <<inflight, tables, now, env, jwtManager, users, issued, nextJti, last, retired>>

(* What a protected handler leaves: the context and the tables.  The      *)
(* orders are the ones the database gives the rows of a list in.           *)
Outcome(handler, c, tbl, usr, t, lands, animals) ==
    CASE handler = "GetLands"     -> GetLands(c, tbl, lands)
      [] handler = "GetLivestock" -> GetLivestock(c, tbl, animals)
      [] handler = "CreateLand"   -> CreateLand(c, tbl, t)
      [] handler = "GetLand"      -> GetLand(c, tbl)
      [] handler = "UpdateLand"   -> UpdateLand(c, tbl)
      [] handler = "DeleteLand"   -> DeleteLand(c, tbl)
      [] handler = "GetProfile"   -> Served(GetProfile(c, usr), tbl)
      [] handler = "Logout"       -> Served(Logout(c), tbl)

ProtectedHandlers == FarmHandlers \cup {"GetProfile", "Logout"}

(* The request as Auth leaves it for a token that carries the role *)
WithRole(c, role) == CtxSet(c, "user_role", role)

(* A protected handler serves the request.  Beside it, last keeps what the *)
(* same handler leaves for the same request and the same tables when the   *)
(* token carries another role.                                             *)
RunProtected ==
    /\ Current(req) \in ProtectedHandlers
    /\ \E lands \in Orderings(Selected(tables.lands, req)),
          animals \in Orderings(Selected(tables.livestock, req)),
          role \in Roles \ {CtxGet(req, "user_role")} :
         LET handler == Current(req)
             c == Ran(req, handler)
             r == Outcome(handler, c, tables, users, now, lands, animals)
             other == Outcome(handler, WithRole(c, role), tables, users, now, lands, animals)
         IN /\ req' = CtxNext(r.c)
            /\ tables' = r.tables
            /\ last' = [op |-> "other role", role |-> role,
                        c |-> CtxNext(other.c), tables |-> other.tables]
    /\ retired' = IF Current(req) = "Logout"
                  THEN retired \cup { Split(req.authorization)[2] } ELSE retired
    /\ UNCHANGED <<inflight, now, env, jwtManager, users, issued, nextJti>>

RespondRoles ==
    /\ req.active /\ Current(req) = "none"
    /\ req' = NoRequest
    /\ last' = NoCall
    /\ UNCHANGED <<inflight, tables, now, env, jwtManager, users, issued, nextJti, retired>>

NextRoles ==
    \/ NewRoleRequest
    \/ RunRequestID
    \/ RunAuth
    \/ RunProtected
    \/ RespondRoles

ProtectedRoutes ==
    {"GET /lands", "POST /lands", "GET /lands/:id", "PUT /lands/:id", "DELETE /lands/:id",
     "GET /livestock", "GET /auth/profile", "POST /auth/logout"}

SendTo(route) == NewRoleRequest /\ req'.route = route

(* gin serves a request it has accepted to its end, and the clients ask    *)
(* for every protected route again and again                               *)
SpecRoles ==
    /\ InitRoles /\ [][NextRoles]_vars
    /\ WF_vars(NextRoles)
    /\ \A route \in ProtectedRoutes : SF_vars(SendTo(route))

(* A protected handler has served the request, and for another role in the *)
(* token it would have left another answer or other tables                 *)
RoleMattered ==
    /\ last.op = "other role"
    /\ \/ last.tables # tables
       \/ last.c # WithRole(req, last.role)

(* C22: the role of the token restricts the protected operations: at some  *)
(* time a protected operation is served with an outcome that would have    *)
(* been another one had the token carried another role                     *)
C22_RoleRestrictsSomeOperation == <>RoleMattered

(* No protected handler ever leaves an outcome that depends on the role *)
C22_RoleNeverMatters == ~RoleMattered

(* A land was deleted on the request of a token with the role admin, as it *)
(* would have been for the role farmer                                     *)
C22_Witness ==
    /\ req.active /\ "DeleteLand" \in req.ran
    /\ last.op = "other role" /\ last.role = "farmer"
    /\ CtxGet(req, "user_role") = "admin"
    /\ Answer(req).status = StatusOK /\ Answer(last.c).status = StatusOK
    /\ \A r \in tables.lands : r.id # "l1"

---------------------------------------------------------------------------
(* The signing method, checked under Spec *)

(* C23: ValidateToken refuses every token whose header names a method      *)
(* outside the HMAC family, whatever its payload and its signature, with   *)
(* the error of the key function and without giving any claim of it out    *)
C23_OtherMethodRejected ==
    (/\ last.op = "ValidateToken" /\ WellFormed(last.arg)
     /\ last.arg[1].val.alg \notin HMACAlgs) =>
        /\ ~last.ok
        /\ last.err = "unexpected signing method"
        /\ last.claims = NoClaims

(* A token with the payload of an issued one, the method none or RS256 in  *)
(* the header and a signature made with the validator's own secret was     *)
(* refused                                                                 *)
C23_Witness ==
    /\ last.op = "ValidateToken" /\ WellFormed(last.arg) /\ ~last.ok
    /\ last.arg[1].val.alg \notin HMACAlgs
    /\ last.arg[1].val.sig.key = jwtManager.secretKey
    /\ \E ts \in issued : ts[1].val.claims = last.arg[1].val.claims
    /\ VerifyExpiresAt(last.arg[1].val.claims, last.at)


---------------------------------------------------------------------------
(* Requests served at the same time.  gin serves every connection on a     *)
(* goroutine of its own, and database/sql hands each statement of a        *)
(* handler to SQLite on its own, so the statements of two handlers         *)
(* interleave.  inflight holds, per connection, the context of the request *)
(* being served, the statement its handler executes next, and the          *)
(* handler's local variables.                                              *)
MaxConns == 2
Conns == 1..MaxConns

Idle == [pc |-> "idle", c |-> NoRequest, hash |-> NoHash]

Flight(pc, c, hash) == [pc |-> pc, c |-> c, hash |-> hash]

InitRace ==
    /\ now \in 0..MaxStart
    /\ env \in Environments
    /\ jwtManager = NewJWTManager(env)
    /\ users = InitialUsers
    /\ tables = InitialTables
    /\ issued = {}
    /\ nextJti = 1
    /\ last = NoCall
    /\ req = NoRequest
    /\ retired = {}
    /\ inflight = [p \in Conns |-> Idle]

(* Register up to its first statement: the body is bound and the two       *)
(* passwords compared                                                      *)
RegisterBegin(p) ==
    /\ inflight[p].pc = "idle"
    /\ \E b \in RegisterBodies :
         LET c == Ran(RequestID([NoRequest EXCEPT !.active = TRUE,
                                                  !.route = "POST /auth/register",
                                                  !.at = now, !.body = b]),
                      "Register")
         IN inflight' = [inflight EXCEPT ![p] =
              IF ~BindRegister(b)
              THEN Flight("done", ErrorResponse(c, StatusBadRequest, "INVALID_REQUEST",
                                                "Gecersiz istek formati", "bind error"),
                          NoHash)
              ELSE IF b.password # b.confirmPassword
              THEN Flight("done", ErrorResponse(c, StatusBadRequest, "PASSWORD_MISMATCH",
                                                "Sifreler eslesmiyor", ""),
                          NoHash)
              ELSE Flight("select", c, NoHash)]
    /\ UNCHANGED <<tables, now, env, jwtManager, users, issued, nextJti, last, req,
                   retired>>

(* SELECT id FROM users WHERE email = ?, and the hashing of the password   *)
(* that follows when no row came back                                      *)
RegisterSelect(p) ==
    /\ inflight[p].pc = "select"
    /\ \E salt \in Salts, rejectLong \in BOOLEAN :
         LET c == [inflight[p].c EXCEPT !.dbOps = @ + 1]
             b == c.body
             h == HashPassword(b.password, salt, rejectLong)
         IN inflight' = [inflight EXCEPT ![p] =
              IF \E r \in users : r.email = b.email
              THEN Flight("done", ErrorResponse(c, StatusConflict, "EMAIL_EXISTS",
                                                "Bu email adresi zaten kullanimda", ""),
                          NoHash)
              ELSE IF ~h.ok
              THEN Flight("done", ErrorResponse(c, StatusInternalServerError,
                                                "HASH_ERROR", "Sifre hash'lenemedi",
                                                "password too long"),
                          NoHash)
              ELSE Flight("insert", c, h.hash)]
    /\ UNCHANGED <<tables, now, env, jwtManager, users, issued, nextJti, last, req,
                   retired>>

(* INSERT INTO users, which the UNIQUE constraint of users.email refuses   *)
(* when a row with the email is there by now, and the two tokens of the    *)
(* answer                                                                  *)
RegisterInsert(p) ==
    /\ inflight[p].pc = "insert"
    /\ LET c == [inflight[p].c EXCEPT !.dbOps = @ + 1]
           b == c.body
       IN IF \E r \in users : r.email = b.email
          THEN /\ inflight' = [inflight EXCEPT ![p] =
                      Flight("done",
                             ErrorResponse(c, StatusInternalServerError, "DB_ERROR",
                                           "Kullanici olusturulamadi",
                                           "UNIQUE constraint failed: users.email"),
                             NoHash)]
               /\ UNCHANGED <<users, issued, nextJti>>
          ELSE LET userID == GenerateID(UserIDs, users)
                   row == [id |-> userID, email |-> b.email,
                           password |-> inflight[p].hash,
                           role |-> "farmer", avatar |-> "NULL"]
                   token == GenerateToken(jwtManager, userID, b.email, "farmer",
                                          now, nextJti)
                   refreshToken == GenerateToken(jwtManager, userID, b.email, "farmer",
                                                 now, nextJti + 1)
               IN /\ nextJti + 1 <= MaxTokens
                  /\ users' = users \cup {row}
                  /\ issued' = issued \cup {token, refreshToken}
                  /\ nextJti' = nextJti + 2
                  /\ inflight' = [inflight EXCEPT ![p] =
                         Flight("done",
                                SuccessResponse(c, [user |-> userID, token |-> token,
                                                    refreshToken |-> refreshToken],
                                                "Kullanici basariyla olusturuldu"),
                                NoHash)]
    /\ UNCHANGED <<tables, now, env, jwtManager, last, req, retired>>

(* The answers leave together once every connection has one, and the       *)
(* connections are free for the next requests                              *)
Deliver ==
    /\ \A p \in Conns : inflight[p].pc = "done"
    /\ inflight' = [p \in Conns |-> Idle]
    /\ UNCHANGED <<tables, now, env, jwtManager, users, issued, nextJti, last, req,
                   retired>>

NextRegisterRace ==
    \/ \E p \in Conns : RegisterBegin(p)
    \/ \E p \in Conns : RegisterSelect(p)
    \/ \E p \in Conns : RegisterInsert(p)
    \/ Deliver

SpecRegisterRace == InitRace /\ [][NextRegisterRace]_vars

(* Properties of registrations served at the same time, checked under      *)
(* SpecRegisterRace                                                        *)

(* The registrations that were answered and carried the email, with a body *)
(* that binds and matching passwords                                       *)
Registrations(email) ==
    { p \in Conns : /\ inflight[p].pc = "done"
                    /\ inflight[p].c.route = "POST /auth/register"
                    /\ BindRegister(inflight[p].c.body)
                    /\ inflight[p].c.body.password = inflight[p].c.body.confirmPassword
                    /\ inflight[p].c.body.email = email }

Created(p) == Answer(inflight[p].c).status = StatusOK /\ Answer(inflight[p].c).body.success

Refused(p, status, code) ==
    /\ Answer(inflight[p].c).status = status
    /\ ~Answer(inflight[p].c).body.success
    /\ Answer(inflight[p].c).body.error.code = code

(* C24: of the registrations with one email that were served together, at  *)
(* most one created the user and got tokens, every other one was answered  *)
(* 409 EMAIL_EXISTS without a token, and no two rows of users have the     *)
(* same email                                                              *)
C24_LosersAnswered409 ==
    /\ \A e \in Emails :
         /\ \A p, q \in Registrations(e) : Created(p) /\ Created(q) => p = q
         /\ \A p \in Registrations(e) :
              Created(p) \/ Refused(p, StatusConflict, "EMAIL_EXISTS")
    /\ \A r, s \in users : r.email = s.email => r = s

(* Two registrations with one email were served together: one created the  *)
(* user, the other was answered 500 DB_ERROR                               *)
C24_Witness ==
    \E e \in Emails : \E p, q \in Registrations(e) :
        /\ Created(p)
        /\ Refused(q, StatusInternalServerError, "DB_ERROR")
        /\ Cardinality({ r \in users : r.email = e }) = 1

(* What does hold: at most one registration per email creates a user, the  *)
(* others get no token, and emails stay unique                             *)
C24_OneRowPerEmail ==
    /\ \A e \in Emails :
         /\ \A p, q \in Registrations(e) : Created(p) /\ Created(q) => p = q
         /\ \A p \in Registrations(e) :
              \/ Created(p)
              \/ Refused(p, StatusConflict, "EMAIL_EXISTS")
              \/ Refused(p, StatusInternalServerError, "DB_ERROR")
    /\ \A r, s \in users : r.email = s.email => r = s


---------------------------------------------------------------------------
(* Changing the password.  The body is a map: a key can be missing, and a  *)
(* value can be any text, the empty one included.                          *)

ChangePassword(c, tbl, salt, rejectLong) ==
    LET u == GetUserID(c)
        b == c.body
    IN
    IF ~u.ok
    THEN Handled(ErrorResponse(c, StatusUnauthorized, "UNAUTHORIZED",
                               "Kullanici kimligi dogrulanamadi", ""), tbl)
    ELSE IF b.json # "ok"
    THEN Handled(ErrorResponse(c, StatusBadRequest, "INVALID_REQUEST",
                               "Gecersiz istek formati", "bind error"), tbl)
    ELSE IF ~b.hasCurrent
    THEN Handled(ErrorResponse(c, StatusBadRequest, "MISSING_CURRENT_PASSWORD",
                               "Mevcut sifre gerekli", ""), tbl)
    ELSE IF ~b.hasNew
    THEN Handled(ErrorResponse(c, StatusBadRequest, "MISSING_NEW_PASSWORD",
                               "Yeni sifre gerekli", ""), tbl)
    ELSE LET q == [c EXCEPT !.dbOps = @ + 1]
             rows == { r \in tbl : r.id = u.userID }
         IN
    IF rows = {}
    THEN Handled(ErrorResponse(q, StatusNotFound, "USER_NOT_FOUND",
                               "Kullanici bulunamadi", "no rows"), tbl)
    ELSE LET hashedPassword == (CHOOSE r \in rows : TRUE).password
             h == HashPassword(b.newPassword, salt, rejectLong)
         IN
    IF ~CheckPassword(b.currentPassword, hashedPassword)
    THEN Handled(ErrorResponse(q, StatusBadRequest, "INVALID_CURRENT_PASSWORD",
                               "Mevcut sifre yanlis", ""), tbl)
    ELSE IF ~h.ok
    THEN Handled(ErrorResponse(q, StatusInternalServerError, "HASH_ERROR",
                               "Yeni sifre hash'lenemedi", "password too long"), tbl)
    ELSE Handled(SuccessResponse([q EXCEPT !.dbOps = @ + 1], <<>>,
                                 "Sifre basariyla degistirildi"),
                 { IF r.id = u.userID THEN [r EXCEPT !.password = h.hash] ELSE r :
                     r \in tbl })

(* The users of the password runs: u1 as Register left it, without an      *)
(* avatar, and u2 whose row was given an avatar in the database itself, as *)
(* no handler writes that column                                           *)
PasswordUsers ==
    InitialUsers
    \cup { [id |-> "u2", email |-> "b@x",
            password |-> HashPassword(InitialPassword, 2, TRUE).hash,
            role |-> "farmer", avatar |-> "b.png"] }

PasswordSessions(j, t) ==
    { GenerateToken(j, "u1", "a@x", "farmer", t, 1),
      GenerateToken(j, "u2", "b@x", "farmer", t, 2) }

(* last remembers, per user, the current and the new password of the last  *)
(* successful change                                                       *)
NoChange == [op |-> "none", changed |-> {}]

InitPassword ==
    /\ now = MaxStart
    /\ env \in Environments
    /\ jwtManager = NewJWTManager(env)
    /\ users = PasswordUsers
    /\ tables = InitialTables
    /\ issued = PasswordSessions(jwtManager, now)
    /\ nextJti = Cardinality(PasswordSessions(jwtManager, now)) + 1
    /\ last = NoChange
    /\ req = NoRequest
    /\ retired = {}
    /\ inflight = <<>>

NewPasswords == {InitialPassword, OtherPassword, <<>>}

ChangeBodies ==
    { [json |-> "bad", hasCurrent |-> FALSE, hasNew |-> FALSE,
       currentPassword |-> <<>>, newPassword |-> <<>>],
      [json |-> "ok", hasCurrent |-> FALSE, hasNew |-> TRUE,
       currentPassword |-> <<>>, newPassword |-> OtherPassword],
      [json |-> "ok", hasCurrent |-> TRUE, hasNew |-> FALSE,
       currentPassword |-> InitialPassword, newPassword |-> <<>>] }
    \cup { [json |-> "ok", hasCurrent |-> TRUE, hasNew |-> TRUE,
            currentPassword |-> cur, newPassword |-> new] :
             cur \in {InitialPassword, OtherPassword}, new \in NewPasswords }

(* An email that no row of users has *)
UnknownEmail == "c@x"

PasswordLoginBodies ==
    LoginBodies
    \cup { [json |-> "ok", email |-> UnknownEmail, password |-> pw,
            confirmPassword |-> <<>>] : pw \in {InitialPassword, OtherPassword} }

NewPasswordRequest ==
    /\ ~req.active
    /\ \/ \E b \in PasswordLoginBodies :
            req' = [NoRequest EXCEPT !.active = TRUE, !.route = "POST /auth/login",
                                     !.at = now, !.body = b]
       \/ \E h \in FarmHeaders, b \in ChangeBodies :
            req' = [NoRequest EXCEPT !.active = TRUE, !.at = now, !.authorization = h,
                                     !.route = "PUT /auth/change-password", !.body = b]
    /\ UNCHANGED <<inflight, tables, now, env, jwtManager, users, issued, nextJti, last,
                   retired>>

RunChangePassword ==
    /\ Current(req) = "ChangePassword"
    /\ \E salt \in Salts, rejectLong \in BOOLEAN :
         LET r == ChangePassword(Ran(req, "ChangePassword"), users, salt, rejectLong)
             userID == CtxGet(req, "user_id")
         IN /\ req' = CtxNext(r.c)
            /\ users' = r.users
            /\ last' = IF Answer(r.c).status = StatusOK
                       THEN [last EXCEPT !.op = "changed",
                                         !.changed = { ch \in @ : ch.userID # userID }
                                            \cup { [userID |-> userID,
                                                    old |-> req.body.currentPassword,
                                                    new |-> req.body.newPassword] }]
                       ELSE last
    /\ UNCHANGED <<inflight, tables, now, env, jwtManager, issued, nextJti, retired>>

(* Login, with room for MaxTokens tokens besides those of the sessions *)
RunPasswordLogin ==
    /\ Current(req) = "Login"
    /\ LET r == Login(Ran(req, "Login"), jwtManager, users, now, nextJti)
       IN /\ r.tokens # <<>> =>
                nextJti + 1 <= Cardinality(PasswordSessions(jwtManager, now)) + MaxTokens
          /\ req' = CtxNext(r.c)
          /\ issued' = issued \cup { r.tokens[i] : i \in 1..Len(r.tokens) }
          /\ nextJti' = nextJti + Len(r.tokens)
    /\ UNCHANGED <<inflight, tables, now, env, jwtManager, users, last, retired>>

NextPassword ==
    \/ NewPasswordRequest
    \/ RunRequestID
    \/ RunAuth
    \/ RunChangePassword
    \/ RunPasswordLogin
    \/ Respond

SpecPassword == InitPassword /\ [][NextPassword]_vars

(* Properties of the password, checked under SpecPassword *)

(* The last successful change of the password of the user with the email *)
LastChange(email) ==
    { ch \in last.changed : \E r \in users : r.id = ch.userID /\ r.email = email }

LoggedIn(c) == Answer(c).status = StatusOK /\ Answer(c).body.success

BadCredentials(c) ==
    /\ Answer(c).status = StatusUnauthorized
    /\ Answer(c).body.error.code = "INVALID_CREDENTIALS"

(* Login after a change: with the old password it is answered 401, with    *)
(* the new one it succeeds                                                 *)
LoginAfterChangeStep ==
    (Current(req) = "Login" /\ "Login" \in req'.ran /\ req.body.json = "ok") =>
        \A ch \in LastChange(req.body.email) :
            /\ req.body.password = ch.old => BadCredentials(req')
            /\ req.body.password = ch.new => LoggedIn(req')

(* A change with a current password that does not verify is answered 400  *)
(* INVALID_CURRENT_PASSWORD and leaves the stored hash as it is            *)
WrongCurrentStep ==
    (/\ Current(req) = "ChangePassword" /\ "ChangePassword" \in req'.ran
     /\ req.body.json = "ok" /\ req.body.hasCurrent /\ req.body.hasNew
     /\ \E r \in users : /\ r.id = CtxGet(req, "user_id")
                         /\ ~CheckPassword(req.body.currentPassword, r.password)) =>
        /\ Answer(req').status = StatusBadRequest
        /\ Answer(req').body.error.code = "INVALID_CURRENT_PASSWORD"
        /\ users' = users

(* C25: after a successful ChangePassword, Login with the old password is  *)
(* answered 401 and Login with the new password succeeds, until the next   *)
(* successful change; a ChangePassword whose currentPassword does not      *)
(* verify is answered 400 INVALID_CURRENT_PASSWORD and changes no hash     *)
C25_NewPasswordLogsIn == [][LoginAfterChangeStep /\ WrongCurrentStep]_vars

(* A user whose row Register created changed the password and then logged  *)
(* in with the new one: the answer was 401                                 *)
C25_Witness ==
    /\ Current(req) = "none" /\ "Login" \in req.ran
    /\ \E ch \in LastChange(req.body.email) :
         /\ ch.userID = "u1"
         /\ ch.new # ch.old
         /\ req.body.password = ch.new
         /\ BadCredentials(req)

(* What does hold: the wrong current password is refused without a change  *)
C25_WrongCurrentRefused == [][WrongCurrentStep]_vars


---------------------------------------------------------------------------
(* Password changes served at the same time *)

(* One user, as Register left it, with one session that the user's        *)
(* devices share                                                           *)
InitPasswordRace ==
    /\ now = MaxStart
    /\ env \in Environments
    /\ jwtManager = NewJWTManager(env)
    /\ users = InitialUsers
    /\ tables = InitialTables
    /\ nextJti = Cardinality(InitialUsers) + 1
    /\ issued = { GenerateToken(jwtManager, "u1", "a@x", "farmer", now, nextJti - 1) }
    /\ last = NoChange
    /\ req = NoRequest
    /\ retired = {}
    /\ inflight = [p \in Conns |-> Idle]

(* The bodies of the changes served together: one that does not bind, and *)
(* those that present a current password and ask for a new one             *)
RaceChangeBodies ==
    { b \in ChangeBodies :
        \/ b.json = "bad"
        \/ b.hasCurrent /\ b.hasNew /\ b.newPassword # InitialPassword }

(* The request passes RequestID and Auth, and ChangePassword runs up to    *)
(* its first statement                                                     *)
ChangeBegin(p) ==
    /\ inflight[p].pc = "idle"
    /\ \E ts \in issued, b \in RaceChangeBodies :
         LET r == [NoRequest EXCEPT !.active = TRUE, !.at = now,
                                    !.authorization = Bearer(ts),
                                    !.route = "PUT /auth/change-password", !.body = b]
             a == [Auth(Ran(RequestID(Ran(r, "RequestID")), "Auth"), env, now)
                     EXCEPT !.authAt = now]
             c == Ran(a, "ChangePassword")
         IN inflight' = [inflight EXCEPT ![p] =
              IF a.aborted THEN Flight("done", a, NoHash)
              ELSE IF ~GetUserID(c).ok \/ b.json # "ok" \/ ~b.hasCurrent \/ ~b.hasNew
              THEN Flight("done", ChangePassword(c, users, 1, TRUE).c, NoHash)
              ELSE Flight("select", c, NoHash)]
    /\ UNCHANGED <<tables, now, env, jwtManager, users, issued, nextJti, last, req,
                   retired>>

(* SELECT password FROM users WHERE id = ?, the comparison of the current  *)
(* password with what was read, and the hashing of the new one             *)
ChangeSelect(p) ==
    /\ inflight[p].pc = "select"
    /\ \E salt \in Salts, rejectLong \in BOOLEAN :
         LET c == [inflight[p].c EXCEPT !.dbOps = @ + 1]
             b == c.body
             rows == { r \in users : r.id = GetUserID(c).userID }
             h == HashPassword(b.newPassword, salt, rejectLong)
         IN inflight' = [inflight EXCEPT ![p] =
              IF rows = {}
              THEN Flight("done", ErrorResponse(c, StatusNotFound, "USER_NOT_FOUND",
                                                "Kullanici bulunamadi", "no rows"),
                          NoHash)
              ELSE IF ~CheckPassword(b.currentPassword,
                                     (CHOOSE r \in rows : TRUE).password)
              THEN Flight("done", ErrorResponse(c, StatusBadRequest,
                                                "INVALID_CURRENT_PASSWORD",
                                                "Mevcut sifre yanlis", ""),
                          NoHash)
              ELSE IF ~h.ok
              THEN Flight("done", ErrorResponse(c, StatusInternalServerError,
                                                "HASH_ERROR", "Yeni sifre hash'lenemedi",
                                                "password too long"),
                          NoHash)
              ELSE Flight("update", c, h.hash)]
    /\ UNCHANGED <<tables, now, env, jwtManager, users, issued, nextJti, last, req,
                   retired>>

(* UPDATE users SET password = ? WHERE id = ? *)
ChangeUpdate(p) ==
    /\ inflight[p].pc = "update"
    /\ LET c == [inflight[p].c EXCEPT !.dbOps = @ + 1]
       IN /\ users' = { IF r.id = GetUserID(c).userID
                        THEN [r EXCEPT !.password = inflight[p].hash] ELSE r :
                          r \in users }
          /\ inflight' = [inflight EXCEPT ![p] =
                Flight("done", SuccessResponse(c, <<>>, "Sifre basariyla degistirildi"),
                       NoHash)]
    /\ UNCHANGED <<tables, now, env, jwtManager, issued, nextJti, last, req, retired>>

NextPasswordRace ==
    \/ \E p \in Conns : ChangeBegin(p)
    \/ \E p \in Conns : ChangeSelect(p)
    \/ \E p \in Conns : ChangeUpdate(p)
    \/ Deliver

SpecPasswordRace == InitPasswordRace /\ [][NextPasswordRace]_vars

(* Properties of password changes served at the same time, checked under   *)
(* SpecPasswordRace                                                        *)

(* A step that replaces a hash is the step of a request whose              *)
(* currentPassword verifies against the hash it replaces                   *)
ReplacementStep ==
    \A p \in Conns :
        (inflight[p].pc = "update" /\ inflight'[p].pc = "done") =>
            \A r \in users :
                r.id = CtxGet(inflight[p].c, "user_id") =>
                    CheckPassword(inflight[p].c.body.currentPassword, r.password)

(* The changes of the password of the user that were answered 200 *)
Changed(userID) ==
    { p \in Conns : /\ inflight[p].pc = "done"
                    /\ "ChangePassword" \in inflight[p].c.ran
                    /\ CtxGet(inflight[p].c, "user_id") = userID
                    /\ Answer(inflight[p].c).status = StatusOK }

(* C26: ChangePassword replaces the hash only if currentPassword verifies  *)
(* against the hash stored at the moment of the replacement, so of two     *)
(* requests served together that present the original password with        *)
(* different new passwords at most one succeeds                            *)
C26_VerifiedAtReplacement == [][ReplacementStep]_vars

(* Two changes of one user's password were served together, both presented *)
(* the original password, each asked for another new password, and both    *)
(* were answered 200                                                       *)
C26_Witness ==
    \E p, q \in Changed("u1") :
        /\ inflight[p].c.body.currentPassword = InitialPassword
        /\ inflight[q].c.body.currentPassword = InitialPassword
        /\ inflight[p].c.body.newPassword = OtherPassword
        /\ inflight[q].c.body.newPassword = <<>>


---------------------------------------------------------------------------
(* Properties of the rows of lands, checked under SpecFarm *)

ValidLand(land) ==
    /\ ~IsEmptyString(land.name)
    /\ ~IsEmptyString(land.unit)
    /\ land.area > 0

(* C27: after any sequence of CreateLand, UpdateLand and DeleteLand every  *)
(* row of lands has a non-blank name, a non-blank unit and an area above 0 *)
C27_LandsWellFormed == \A land \in tables.lands : ValidLand(land)

(* UpdateLand has answered 200 to a body with a blank name, a blank unit   *)
(* and the area 0, and the caller's land has these values                  *)
C27_Witness ==
    /\ Current(req) = "none" /\ "UpdateLand" \in req.ran
    /\ Answer(req).status = StatusOK
    /\ ~ValidLand(req.body)
    /\ \E land \in tables.lands :
         /\ land.id = req.param /\ land.user_id = CtxGet(req, "user_id")
         /\ ~ValidLand(land)

(* What does hold: CreateLand answers 400 to such a body and adds no row,  *)
(* and every row CreateLand adds is well formed                            *)
CreateStep ==
    (Current(req) = "CreateLand" /\ "CreateLand" \in req'.ran /\ req.body.json = "ok") =>
        /\ ~ValidLand(req.body) =>
              /\ Answer(req').status = StatusBadRequest
              /\ tables' = tables
        /\ \A land \in tables'.lands \ tables.lands : ValidLand(land)

C27_CreateLandValidates == [][CreateStep]_vars


---------------------------------------------------------------------------
(* The activities of a land.  land_activities declares FOREIGN KEY         *)
(* (land_id) REFERENCES lands(id) ON DELETE CASCADE.  SQLite acts on a     *)
(* foreign key only on a connection that has them switched on: InitDB      *)
(* opens the database with the text of DB_PATH and runs no PRAGMA, so they *)
(* are on only when DB_PATH carries _foreign_keys=1 or the driver was      *)
(* built with the sqlite_foreign_keys tag.  tables.foreign_keys tells      *)
(* which it is.                                                            *)
ActivityIDs == {"v1", "v2"}

(* What the database does to the activities when rows of lands went *)
OnDeleteCascade(tbl) ==
    IF tbl.foreign_keys
    THEN [tbl EXCEPT !.land_activities =
              { a \in @ : \E land \in tbl.lands : land.id = a.land_id }]
    ELSE tbl

CreateLandActivity(c, tbl) ==
    LET u == GetUserID(c) IN
    IF ~u.ok THEN Served(Unauthorized(c), tbl)
    ELSE LET landID == c.param IN
    IF IsEmptyString(landID)
    THEN Served(ErrorResponse(c, StatusBadRequest, "MISSING_ID", "Arazi ID gerekli", ""), tbl)
    ELSE IF c.body.json # "ok"
    THEN Served(ErrorResponse(c, StatusBadRequest, "INVALID_REQUEST",
                              "Gecersiz istek formati", "bind error"), tbl)
    ELSE LET q == [c EXCEPT !.dbOps = @ + 1] IN
    IF ~\E land \in tbl.lands : land.id = landID /\ land.user_id = u.userID
    THEN Served(ErrorResponse(q, StatusNotFound, "LAND_NOT_FOUND", "Arazi bulunamadi", ""),
                tbl)
    ELSE LET activityID == GenerateID(ActivityIDs, tbl.land_activities)
             activity == [id |-> activityID, land_id |-> landID, type |-> c.body.type]
         IN Served(CtxJSON([q EXCEPT !.dbOps = @ + 2], StatusCreated,
                           Body(TRUE, activity, "Arazi aktivitesi basariyla olusturuldu",
                                NoError, NoMeta)),
                   [tbl EXCEPT !.land_activities = @ \cup {activity}])

InitActivities ==
    /\ now = MaxStart
    /\ env \in Environments
    /\ jwtManager = NewJWTManager(env)
    /\ users = FarmUsers
    /\ \E fk \in BOOLEAN :
         tables = [lands |-> InitialLands, livestock |-> {}, land_activities |-> {},
                   foreign_keys |-> fk]
    /\ issued = { GenerateToken(jwtManager, "u1", "a@x", "farmer", now, 1),
                  GenerateToken(jwtManager, "u2", "b@x", "farmer", now, 2) }
    /\ nextJti = Cardinality(FarmUsers) + 1
    /\ last = NoCall
    /\ req = NoRequest
    /\ retired = {}
    /\ inflight = <<>>

ActivityBodies ==
    { [json |-> "bad", type |-> ""],
      [json |-> "ok", type |-> "irrigation"],
      [json |-> "ok", type |-> "harvest"] }

NewActivityRequest ==
    /\ ~req.active
    /\ \E h \in FarmHeaders, id \in LandIDs :
         LET r == [NoRequest EXCEPT !.active = TRUE, !.at = now, !.authorization = h,
                                    !.param = id]
         IN \/ req' = [r EXCEPT !.route = "DELETE /lands/:id"]
            \/ \E b \in ActivityBodies :
                 /\ \E id2 \in ActivityIDs : \A a \in tables.land_activities : a.id # id2
                 /\ req' = [r EXCEPT !.route = "POST /lands/:id/activities", !.body = b]
    /\ UNCHANGED <<inflight, tables, now, env, jwtManager, users, issued, nextJti, last,
                   retired>>

RunCreateLandActivity ==
    /\ Current(req) = "CreateLandActivity"
    /\ LET r == CreateLandActivity(Ran(req, "CreateLandActivity"), tables)
       IN req' = CtxNext(r.c) /\ tables' = r.tables
    /\ UNCHANGED <<inflight, now, env, jwtManager, users, issued, nextJti, last, retired>>

(* DeleteLand on a database that has activities *)
RunDeleteLandOfActivities ==
    /\ Current(req) = "DeleteLand"
    /\ LET r == DeleteLand(Ran(req, "DeleteLand"), tables)
       IN req' = CtxNext(r.c) /\ tables' = OnDeleteCascade(r.tables)
    /\ UNCHANGED <<inflight, now, env, jwtManager, users, issued, nextJti, last, retired>>

NextActivities ==
    \/ NewActivityRequest
    \/ RunRequestID
    \/ RunAuth
    \/ RunCreateLandActivity
    \/ RunDeleteLandOfActivities
    \/ Respond

SpecActivities == InitActivities /\ [][NextActivities]_vars

(* Properties of the activities, checked under SpecActivities *)

Orphans(tbl) ==
    { a \in tbl.land_activities : ~\E land \in tbl.lands : land.id = a.land_id }

(* C28: every row of land_activities references a land that exists; a      *)
(* DeleteLand that succeeds takes the activities of the land with it       *)
C28_ActivitiesReferenceLands == Orphans(tables) = {}

(* DeleteLand has answered 200 for a land that had an activity, and the    *)
(* activity is still in land_activities                                    *)
C28_Witness ==
    /\ Current(req) = "none" /\ "DeleteLand" \in req.ran
    /\ Answer(req).status = StatusOK
    /\ \E a \in Orphans(tables) : a.land_id = req.param

(* What does hold: an activity is only recorded on a land of the caller,   *)
(* and on a connection with foreign keys on no activity outlives its land  *)
ActivityStep ==
    /\ \A a \in tables'.land_activities \ tables.land_activities :
         \E land \in tables.lands :
             land.id = a.land_id /\ land.user_id = CtxGet(req, "user_id")
    /\ tables.foreign_keys => Orphans(tables') = {}

C28_RecordedOnOwnLand == [][ActivityStep]_vars


---------------------------------------------------------------------------
(* The profile.  The rows of users carry here the columns UpdateProfile    *)
(* writes and those its body names.                                        *)

(* CURRENT_TIMESTAMP: the time to the second *)
CurrentTimestamp(t) == t - (t % TicksPerSecond)

(* A variant that writes every field of the body that has a column *)
UpdateProfileFromBody(c, tbl, t) ==
    LET u == GetUserID(c) IN
    IF ~u.ok
    THEN Handled(ErrorResponse(c, StatusUnauthorized, "UNAUTHORIZED",
                               "Kullanici kimligi dogrulanamadi", ""), tbl)
    ELSE IF c.body.json # "ok"
    THEN Handled(ErrorResponse(c, StatusBadRequest, "INVALID_REQUEST",
                               "Gecersiz istek formati", "bind error"), tbl)
    ELSE Handled(SuccessResponse([c EXCEPT !.dbOps = @ + 2], <<u.userID>>,
                                 "Profil basariyla guncellendi"),
                 { IF r.id = u.userID
                   THEN [r EXCEPT !.name = c.body.name, !.farm_name = c.body.farmName,
                                  !.location = c.body.location, !.role = c.body.role,
                                  !.is_verified = c.body.isVerified,
                                  !.updated_at = CurrentTimestamp(t)]
                   ELSE r : r \in tbl })

(* UPDATE users SET name, farm_name, location, updated_at WHERE id = ?,    *)
(* then the row is read back as GetProfile reads it                        *)
UpdateProfile(c, tbl, t) ==
    LET u == GetUserID(c) IN
    IF ~u.ok
    THEN Handled(ErrorResponse(c, StatusUnauthorized, "UNAUTHORIZED",
                               "Kullanici kimligi dogrulanamadi", ""), tbl)
    ELSE IF c.body.json # "ok"
    THEN Handled(ErrorResponse(c, StatusBadRequest, "INVALID_REQUEST",
                               "Gecersiz istek formati", "bind error"), tbl)
    ELSE LET updated ==
               { IF r.id = u.userID
                 THEN [r EXCEPT !.name = c.body.name, !.farm_name = c.body.farmName,
                                !.location = c.body.location,
                                !.updated_at = CurrentTimestamp(t)]
                 ELSE r : r \in tbl }
             q == [c EXCEPT !.dbOps = @ + 2]
             rows == { r \in updated : r.id = u.userID }
         IN IF rows = {} \/ \E r \in rows : r.avatar = "NULL"
            THEN Handled(ErrorResponse(q, StatusInternalServerError, "FETCH_ERROR",
                                       "Guncellenmis profil getirilemedi", "scan error"),
                         updated)
            ELSE Handled(SuccessResponse(q, <<u.userID>>, "Profil basariyla guncellendi"),
                         updated)

(* u1 as Register left it, u2 with an avatar set in the database itself *)
ProfileUsers ==
    { [id |-> "u1", email |-> "a@x",
       password |-> HashPassword(InitialPassword, 1, TRUE).hash,
       role |-> "farmer", avatar |-> "NULL", name |-> "ann", farm_name |-> "hill",
       location |-> "izmir", is_verified |-> FALSE, updated_at |-> 0],
      [id |-> "u2", email |-> "b@x",
       password |-> HashPassword(OtherPassword, 2, TRUE).hash,
       role |-> "farmer", avatar |-> "b.png", name |-> "bob", farm_name |-> "dale",
       location |-> "bursa", is_verified |-> FALSE, updated_at |-> 0] }

InitProfile ==
    /\ now = 0
    /\ env \in Environments
    /\ jwtManager = NewJWTManager(env)
    /\ users = ProfileUsers
    /\ tables = InitialTables
    /\ issued = PasswordSessions(jwtManager, now)
    /\ nextJti = Cardinality(PasswordSessions(jwtManager, now)) + 1
    /\ last = NoCall
    /\ req = NoRequest
    /\ retired = {}
    /\ inflight = <<>>

(* Bodies of models.User: besides the three fields of a profile they can   *)
(* name an id, an email, a role and a verification of the sender's choice  *)
ProfileBodies ==
    { [json |-> "bad", name |-> "", farmName |-> "", location |-> "", id |-> "",
       email |-> "", role |-> "", isVerified |-> FALSE] }
    \cup { [json |-> "ok", name |-> n, farmName |-> "peak", location |-> "",
            id |-> "u2", email |-> "b@x", role |-> r, isVerified |-> v] :
             n \in {"", "eve"}, r \in {"farmer", "admin"}, v \in BOOLEAN }

NewProfileRequest ==
    /\ ~req.active
    /\ \E h \in FarmHeaders, b \in ProfileBodies :
         req' = [NoRequest EXCEPT !.active = TRUE, !.at = now, !.authorization = h,
                                  !.route = "PUT /auth/profile", !.body = b]
    /\ UNCHANGED <<inflight, tables, now, env, jwtManager, users, issued, nextJti, last,
                   retired>>

RunUpdateProfile ==
    /\ Current(req) = "UpdateProfile"
    /\ LET r == UpdateProfile(Ran(req, "UpdateProfile"), users, now)
       IN req' = CtxNext(r.c) /\ users' = r.users
    /\ UNCHANGED <<inflight, tables, now, env, jwtManager, issued, nextJti, last, retired>>

NextProfile ==
    \/ Tick
    \/ NewProfileRequest
    \/ RunRequestID
    \/ RunAuth
    \/ RunUpdateProfile
    \/ Respond

SpecProfile == InitProfile /\ [][NextProfile]_vars

(* Properties of the profile, checked under SpecProfile *)

(* The columns of a row that UpdateProfile must leave alone *)
Kept(r) == [id |-> r.id, email |-> r.email, role |-> r.role, password |-> r.password,
            is_verified |-> r.is_verified, avatar |-> r.avatar]

ProfileStep ==
    (Current(req) = "UpdateProfile" /\ "UpdateProfile" \in req'.ran) =>
        /\ \A r \in users : r.id # CtxGet(req, "user_id") => r \in users'
        /\ \A r \in users : \E s \in users' : Kept(s) = Kept(r)
        /\ Cardinality(users') = Cardinality(users)

(* C29: UpdateProfile changes only name, farm_name, location and           *)
(* updated_at of the caller's row: id, email, role, password hash and      *)
(* is_verified of that row and every row of another user stay as they     *)
(* were, whatever the body carries                                         *)
C29_OnlyProfileColumnsChange == [][ProfileStep]_vars

(* UpdateProfile has written the name of a body that also named another    *)
(* id, another email, the role admin and a verification                    *)
C29_Witness ==
    /\ Current(req) = "none" /\ "UpdateProfile" \in req.ran
    /\ req.body.role = "admin" /\ req.body.isVerified /\ req.body.name = "eve"
    /\ CtxGet(req, "user_id") = "u1"
    /\ \E r \in users : r.id = "u1" /\ r.name = "eve" /\ r.farm_name = "peak"


---------------------------------------------------------------------------
(* Properties of Login, checked under SpecPassword *)

(* What Login would answer to the request if its email were one that no    *)
(* row has                                                                 *)
AsUnknown(c) ==
    Answer(Login(Ran([c EXCEPT !.body.email = UnknownEmail], "Login"),
                 jwtManager, users, now, nextJti).c)

Verifies(b) ==
    \E r \in users : r.email = b.email /\ CheckPassword(b.password, r.password)

LoginStep ==
    (Current(req) = "Login" /\ "Login" \in req'.ran /\ BindLogin(req.body)) =>
        /\ ~Verifies(req.body) =>
              /\ Answer(req') = AsUnknown(req)
              /\ Answer(req').status = StatusUnauthorized
              /\ Answer(req').body.error =
                    [code |-> "INVALID_CREDENTIALS",
                     message |-> "Gecersiz email veya sifre", details |-> ""]
        /\ LoggedIn(req') => Verifies(req.body)
        /\ issued' # issued => LoggedIn(req')

(* C30: Login answers an unknown email and a registered email with a wrong *)
(* password with the same response, 401 INVALID_CREDENTIALS with the same  *)
(* message and no details, and it gives tokens only when the email exists  *)
(* and the password verifies                                               *)
C30_SameAnswerForUnknownAndWrong == [][LoginStep]_vars

(* After a login that got tokens, a login with a registered email and a    *)
(* wrong password has been answered 401                                    *)
C30_Witness ==
    /\ Current(req) = "none" /\ "Login" \in req.ran
    /\ req.body.email = "b@x" /\ ~Verifies(req.body)
    /\ BadCredentials(req)
    /\ issued # PasswordSessions(jwtManager, now)

====
